---- MODULE Spec2Model ----
(***************************************************************************)
(* NYC Urban Mobility Explorer.                                            *)
(*                                                                         *)
(* Part 1 models database/populate-db.py, the script that loads the        *)
(* cleaned trips file into the trips relation in committed chunks          *)
(* (Phase A) and then backfills derived_features page by page (Phase B).   *)
(* Part 2 models TaxiDataCleaner.run_pipeline of src/data_cleaning.py.     *)
(***************************************************************************)
EXTENDS Integers, Sequences, FiniteSets, TLC

(***************************************************************************)
(* Bounds of the model.  batch_size is 50000 and page_size 5000 in the     *)
(* script (populate-db.py lines 111, 185 and 154, 171, 235); the model     *)
(* keeps their roles and scales their values.                              *)
(***************************************************************************)
batch_size == 2
page_size == 1
MaxRows == 5
MaxPre == 1

VARIABLES
    pc,               \* position of the script
    csv_rows,         \* TRIPS_FILE: the rows, each a record of CsvRows
    pos,              \* rows the csv reader has handed out
    batch_data,       \* parsed rows waiting for the next bulk insert
    total_inserted,   \* running counter of Phase A
    txn,              \* rows written by the open transaction, not committed
    trips,            \* committed trips relation, ordered by trip_id
    derived_features, \* committed derived_features relation
    next_id,          \* next generated trip_id
    trip_count,       \* SELECT COUNT(*) FROM trips
    offset,           \* OFFSET of the next Phase B page
    processed,        \* trips Phase B has handled
    fetched,          \* rows the last page SELECT returned (the local "trips")
    feature_count,    \* SELECT COUNT(*) FROM derived_features
    session,          \* "unbound": conn is not bound; "conn": conn is bound
                      \* and cursor is not; "cursor": both are bound;
                      \* "closed": conn.close() has returned
    exc,              \* exception that is propagating, "none" when there is none
    failed_at,        \* step whose failure ended the run, "none" when none did
    exit_status,      \* -1 while the process runs, then its exit status
    stmts,            \* statements sent to the database, in order
    ppc,              \* TaxiDataCleaner: the call run_pipeline makes next
    raw,              \* rows of the input parquet file
    df,               \* self.df
    cstats,           \* self.stats of the cleaner
    calls,            \* methods run_pipeline has called, in order
    output,           \* rows written to cleaned_trips.csv
    result,           \* first component of what run_pipeline returned
    fn,               \* library function that was called, "none" before
    args,             \* the arguments of that call
    ret,              \* what the call returned, or the exception it raised
    stats,            \* self.stats of the ManualOutlierDetector
    invocations       \* calls of detect_outliers made on that detector

loader_vars == <<pc, csv_rows, pos, batch_data, total_inserted, txn, trips,
                 derived_features, next_id, trip_count, offset, processed,
                 fetched, feature_count, session, exc, failed_at,
                 exit_status, stmts>>

pipeline_vars == <<ppc, raw, df, cstats, calls, output, result>>

call_vars == <<fn, args, ret, stats, invocations>>

vars == <<loader_vars, pipeline_vars, call_vars>>

----------------------------------------------------------------------------
(* The feature functions of the loader script (populate-db.py lines       *)
(* 31-59).  Timestamps are seconds since 2019-01-01T00:00:00, money is in  *)
(* cents and trip_distance in hundredths of a mile.  A call ends in a      *)
(* record: raised is "none" and value what the call returned (NULL for     *)
(* None), or raised is the exception that left the call.  Percentages,     *)
(* minutes and miles per hour are in hundredths.                           *)

\* a null (None / NaN / NaT) field
NULL == -999999

Sign(x) == IF x > 0 THEN 1 ELSE IF x < 0 THEN -1 ELSE 0


Min(a, b) == IF a < b THEN a ELSE b

(***************************************************************************)
(* Double arithmetic.  The amounts of the code are Python floats, IEEE-754 *)
(* doubles: 0.1 and 0.47 are not doubles, and a quotient, a product or a   *)
(* sum is the double nearest to the exact result, a tie going to the even  *)
(* significand.  A natural number of any size is the sequence of its       *)
(* digits in base 2^15, the least significant first, without a leading     *)
(* zero digit.  A double is <<sign, m, e>>, the number sign * m * 2^e with *)
(* a significand m of 53 bits; zero is <<0, <<>>, 0>>.  (The doubles of    *)
(* the model are far from the subnormal and from the infinite ones.)       *)
(***************************************************************************)

Limb == 2 ^ 15

RECURSIVE BigOf(_)
BigOf(n) == IF n = 0 THEN <<>> ELSE <<n % Limb>> \o BigOf(n \div Limb)

Digit(a, i) == IF i >= 1 /\ i <= Len(a) THEN a[i] ELSE 0

\* a without its leading zero digits
BigTrim(a) ==
    LET used == {i \in 1..Len(a) : a[i] # 0}
    IN  IF used = {} THEN <<>>
        ELSE SubSeq(a, 1, CHOOSE i \in used : \A j \in used : j <= i)

\* the sign of a - b
BigCmp(a, b) ==
    IF Len(a) # Len(b) THEN Sign(Len(a) - Len(b))
    ELSE LET differ == {i \in 1..Len(a) : a[i] # b[i]}
         IN  IF differ = {} THEN 0
             ELSE LET top == CHOOSE i \in differ : \A j \in differ : j <= i
                  IN  Sign(a[top] - b[top])

\* a + b: a carry enters digit i when a lower digit produces one and every
\* digit between the two passes it on
BigAdd(a, b) ==
    IF a = <<>> THEN b
    ELSE IF b = <<>> THEN a
    ELSE LET n == (IF Len(a) > Len(b) THEN Len(a) ELSE Len(b)) + 1
             carry(i) == IF \E j \in 1..(i - 1) :
                               /\ Digit(a, j) + Digit(b, j) >= Limb
                               /\ \A k \in (j + 1)..(i - 1) :
                                     Digit(a, k) + Digit(b, k) = Limb - 1
                         THEN 1 ELSE 0
         IN  BigTrim([i \in 1..n |->
                         (Digit(a, i) + Digit(b, i) + carry(i)) % Limb])

\* a - b, for a >= b
BigSub(a, b) ==
    IF b = <<>> THEN a
    ELSE LET borrow(i) == IF \E j \in 1..(i - 1) :
                                /\ a[j] < Digit(b, j)
                                /\ \A k \in (j + 1)..(i - 1) :
                                      a[k] = Digit(b, k)
                          THEN 1 ELSE 0
         IN  BigTrim([i \in 1..Len(a) |->
                         (a[i] - Digit(b, i) - borrow(i) + Limb) % Limb])

\* a * m, for a digit m: the low and the high digits of the products
BigTimes(a, m) ==
    IF a = <<>> \/ m = 0 THEN <<>>
    ELSE BigAdd([i \in 1..Len(a) |-> (a[i] * m) % Limb],
                <<0>> \o [i \in 1..Len(a) |-> (a[i] * m) \div Limb])

\* a * 2^(15 k)
BigShiftDigits(a, k) == IF a = <<>> THEN <<>> ELSE [i \in 1..k |-> 0] \o a

RECURSIVE BigMulFrom(_, _, _)
BigMulFrom(a, b, j) ==
    IF j > Len(b) THEN <<>>
    ELSE BigAdd(BigShiftDigits(BigTimes(a, b[j]), j - 1),
                BigMulFrom(a, b, j + 1))

BigMul(a, b) == BigMulFrom(a, b, 1)

\* a * 2^k
BigShl(a, k) == BigShiftDigits(BigTimes(a, 2 ^ (k % 15)), k \div 15)

\* the integer part of a / 2^k
BigShr(a, k) ==
    IF Len(a) <= k \div 15 THEN <<>>
    ELSE LET b == SubSeq(a, k \div 15 + 1, Len(a))
             low == 2 ^ (k % 15)
         IN  BigTrim([i \in 1..Len(b) |->
                         b[i] \div low
                         + (Digit(b, i + 1) % low) * (Limb \div low)])

\* the number of bits of a digit
DigitBits(n) == CHOOSE b \in 0..15 : n < 2 ^ b /\ (b = 0 \/ n >= 2 ^ (b - 1))

\* the number of bits of a
BigBits(a) == IF a = <<>> THEN 0 ELSE 15 * (Len(a) - 1) + DigitBits(a[Len(a)])

\* bit i of a, bit 0 being the lowest
BigBit(a, i) == (Digit(a, i \div 15 + 1) \div (2 ^ (i % 15))) % 2

\* a is a multiple of 2^k
BigLowZero(a, k) ==
    /\ \A i \in 1..(k \div 15) : Digit(a, i) = 0
    /\ Digit(a, k \div 15 + 1) % (2 ^ (k % 15)) = 0

\* the digit m with d * m <= r < d * (m + 1), for r < d * 2^15 and a d whose
\* leading digit has 15 bits: the quotient of the leading digits of r and d
\* is m, m + 1 or m + 2
QuotientDigit(r, d) ==
    IF Len(r) < Len(d) THEN 0
    ELSE LET top == Digit(r, Len(d) + 1) * Limb + r[Len(d)]
             guess == Min(top \div d[Len(d)], Limb - 1)
         IN  IF BigCmp(BigTimes(d, guess), r) <= 0 THEN guess
             ELSE IF BigCmp(BigTimes(d, guess - 1), r) <= 0 THEN guess - 1
             ELSE guess - 2

\* long division by d of the digits i down to 1 of a, q being the digits of
\* the quotient found so far, without its leading zeros, and r what the
\* digits above i left: <<digits of the quotient, whether the division
\* leaves no remainder>>
RECURSIVE BigDivFrom(_, _, _, _, _)

\* the step that puts the digit m, the quotient of r2 by d, on the quotient
BigDivDigit(a, d, i, q, r2, m) ==
    IF m = 0 /\ q = <<>> THEN BigDivFrom(a, d, i - 1, q, r2)
    ELSE BigDivFrom(a, d, i - 1, <<m>> \o q, BigSub(r2, BigTimes(d, m)))

\* the step that divides r2, the remainder so far with digit i of a below it
BigDivStep(a, d, i, q, r2) == BigDivDigit(a, d, i, q, r2, QuotientDigit(r2, d))

BigDivFrom(a, d, i, q, r) ==
    IF i = 0 THEN <<q, r = <<>>>>
    ELSE BigDivStep(a, d, i, q, BigTrim(<<a[i]>> \o r))

\* the division of num by a d whose leading digit has 15 bits
BigDivDigits(num, d) == BigDivFrom(num, d, Len(num), <<>>, <<>>)

\* the shift that gives d a leading digit of 15 bits
BigDivScale(d) == 15 - DigitBits(d[Len(d)])

\* <<the integer part of a / d, whether a / d is that integer>>, for d > 0;
\* a and d are first scaled to give d a leading digit of 15 bits
BigDiv(a, d) == BigDivDigits(BigShl(a, BigDivScale(d)), BigShl(d, BigDivScale(d)))

\* the integer part of the square root of a number below 2^30
RECURSIVE IntSqrtFrom(_, _, _)
IntSqrtFrom(n, lo, hi) ==
    IF lo = hi THEN lo
    ELSE LET mid == (lo + hi + 1) \div 2
         IN  IF mid * mid <= n THEN IntSqrtFrom(n, mid, hi)
             ELSE IntSqrtFrom(n, lo, mid - 1)

\* Newton's iteration for the integer part of the square root of n, from an
\* x that is not below it
RECURSIVE BigSqrtFrom(_, _)

\* the step from x to the next value y of the iteration
BigSqrtNext(n, x, y) == IF BigCmp(y, x) < 0 THEN BigSqrtFrom(n, y) ELSE x

BigSqrtFrom(n, x) == BigSqrtNext(n, x, BigShr(BigAdd(x, BigDiv(n, x)[1]), 1))

\* the integer part of the square root of n; the iteration starts from the
\* root of the one or two leading digits of n
BigSqrt(n) ==
    IF n = <<>> THEN <<>>
    ELSE LET half == (Len(n) - 1) \div 2
             lead == Digit(n, 2 * half + 2) * Limb + n[2 * half + 1]
         IN  BigSqrtFrom(n, BigShiftDigits(
                                BigOf(IntSqrtFrom(lead, 0, Limb - 1) + 1), half))

\* the number a stands for, for an a below 2^31
RECURSIVE BigInt(_)
BigInt(a) == IF a = <<>> THEN 0 ELSE a[1] + Limb * BigInt(Tail(a))

DblZero == <<0, <<>>, 0>>

\* <<sign, m, e>> with a significand m that rounding may have carried to
\* 54 bits
DblNormal(sign, m, e) ==
    IF BigBits(m) = 54 THEN <<sign, BigShr(m, 1), e + 1>> ELSE <<sign, m, e>>

\* q without its drop lowest bits is rounded up: the highest bit cut off is
\* set and either more is cut off below it or the lowest bit kept is set
DblRoundsUp(q, drop, inexact) ==
    /\ BigBit(q, drop - 1) = 1
    /\ \/ inexact
       \/ ~BigLowZero(q, drop - 1)
       \/ BigBit(q, drop) = 1

DblCutAt(sign, q, drop, inexact, e) ==
    DblNormal(sign,
              IF DblRoundsUp(q, drop, inexact)
              THEN BigAdd(BigShr(q, drop), <<1>>) ELSE BigShr(q, drop),
              e + drop)

\* the double nearest to a number sign * x * 2^e of which q, of 54 bits or
\* more, is the integer part of x, and inexact tells whether x has a
\* fraction: q is cut to 53 bits and rounded on the bits cut off
DblCut(sign, q, inexact, e) == DblCutAt(sign, q, BigBits(q) - 53, inexact, e)

\* the double nearest to sign * x * 2^e for qr = <<the integer part of x,
\* whether x is that integer>>
DblCutQuotient(sign, qr, e) == DblCut(sign, qr[1], ~qr[2], e)

\* the shift of n that gives n / d an integer part of 55 bits or more
DblRoundShift(n, d) ==
    IF 55 + BigBits(d) > BigBits(n) THEN 55 + BigBits(d) - BigBits(n) ELSE 0

\* the double nearest to sign * (n / d) * 2^e, for natural numbers n and
\* d > 0
DblRound(sign, n, d, e) ==
    IF n = <<>> \/ sign = 0 THEN DblZero
    ELSE DblCutQuotient(sign, BigDiv(BigShl(n, DblRoundShift(n, d)), d),
                        e - DblRoundShift(n, d))

\* the double nearest to x = <<sign, n, e>>, the number sign * n * 2^e with
\* a natural number n of any size
DblOf(x) ==
    IF x[1] = 0 \/ x[2] = <<>> THEN DblZero
    ELSE LET bits == BigBits(x[2])
         IN  IF bits <= 53
             THEN <<x[1], BigShl(x[2], 53 - bits), x[3] - (53 - bits)>>
             ELSE DblCut(x[1], x[2], FALSE, x[3])

\* float(n / d) of a decimal literal or an integer: the double nearest to n / d
Dbl(n, d) == DblRound(Sign(n), BigOf(IF n < 0 THEN -n ELSE n), BigOf(d), 0)

\* the exact sum of a and b
ExactSum(a, b) ==
    IF a[1] = 0 THEN b
    ELSE IF b[1] = 0 THEN a
    ELSE LET e == Min(a[3], b[3])
             x == BigShl(a[2], a[3] - e)
             y == BigShl(b[2], b[3] - e)
             c == BigCmp(x, y)
         IN  IF a[1] = b[1] THEN <<a[1], BigAdd(x, y), e>>
             ELSE IF c = 0 THEN DblZero
             ELSE IF c > 0 THEN <<a[1], BigSub(x, y), e>>
             ELSE <<b[1], BigSub(y, x), e>>

\* the exact product of a and b
ExactProduct(a, b) ==
    IF a[1] = 0 \/ b[1] = 0 THEN DblZero
    ELSE <<a[1] * b[1], BigMul(a[2], b[2]), a[3] + b[3]>>

\* -a
DblNeg(a) == <<-a[1], a[2], a[3]>>

\* abs(a)
DblAbs(a) == <<a[1] * a[1], a[2], a[3]>>

\* a / b
DblDiv(a, b) == DblRound(a[1] * b[1], a[2], b[2], a[3] - b[3])

\* a * b
DblMul(a, b) == DblOf(ExactProduct(a, b))

\* a + b
DblAdd(a, b) == DblOf(ExactSum(a, b))

\* a - b
DblSub(a, b) == DblOf(ExactSum(a, DblNeg(b)))

\* the double nearest to the square root of n * 2^(2 e), r being the
\* integer part of the square root of n
DblSqrtCut(n, r, e) == DblCut(1, r, BigMul(r, r) # n, e)

\* the shift that makes the exponent even and gives the root 54 bits or more
DblSqrtShift(e) == IF e % 2 = 0 THEN 66 ELSE 67

DblSqrtOf(n, e) == DblSqrtCut(n, BigSqrt(n), e)

\* math.sqrt(a), for a >= 0
DblSqrt(a) ==
    IF a[1] = 0 THEN DblZero
    ELSE DblSqrtOf(BigShl(a[2], DblSqrtShift(a[3])),
                   (a[3] - DblSqrtShift(a[3])) \div 2)

\* the sign of a - b
DblCmp(a, b) == ExactSum(a, DblNeg(b))[1]

\* round(x, 2) in hundredths: the whole number nearest to 100 x, the even
\* one when 100 x is halfway between two
DblHundredths(x) ==
    IF x[1] = 0 THEN 0
    ELSE LET n == BigTimes(x[2], 100)
         IN  IF x[3] >= 0 THEN x[1] * BigInt(BigShl(n, x[3]))
             ELSE LET floor == BigShr(n, -x[3])
                      above == BigBit(n, -x[3] - 1) = 1
                      tie == BigLowZero(n, -x[3] - 1)
                      up == above /\ (~tie \/ BigBit(floor, 0) = 1)
                  IN  x[1] * (BigInt(floor) + (IF up THEN 1 ELSE 0))

\* round(x, 2) in hundredths, for the double x the code computed for the
\* exact quotient p / q (q > 0).  When p / q is not halfway between two
\* hundredths it is 1 / (2 q) of a hundredth or more away from halfway, and
\* x, which is within 2^-50 of p / q in proportion, is on the same side:
\* round(x, 2) is the hundredth nearest to p / q.  When p / q is halfway,
\* the double x itself is rounded.
RoundQuotient(p, q, x) ==
    LET a == IF p < 0 THEN -p ELSE p
        floor == 100 * (a \div q) + (100 * (a % q)) \div q
        rest == (100 * (a % q)) % q
    IN  IF 2 * rest > q THEN Sign(p) * (floor + 1)
        ELSE IF 2 * rest < q THEN Sign(p) * floor
        ELSE DblHundredths(x)

Hour(t) == (t \div 3600) % 24

\* 0 = Monday; 2019-01-01 was a Tuesday
DayOfWeek(t) == (1 + (t \div 86400)) % 7

Raised(e) == [raised |-> e, value |-> NULL]

Value(v) == [raised |-> "none", value |-> v]

\* "fare_amount <= 0" and "tip_amount / fare_amount" raise TypeError on None
calculate_tip_percentage(tip_amount, fare_amount) ==
    IF fare_amount = NULL THEN Raised("TypeError")
    ELSE IF fare_amount <= 0 THEN Value(0)
    ELSE IF tip_amount = NULL THEN Raised("TypeError")
    ELSE Value(RoundQuotient(tip_amount * 100, fare_amount,
                             DblMul(DblDiv(Dbl(tip_amount, 100),
                                           Dbl(fare_amount, 100)),
                                    Dbl(100, 1))))

\* "dropoff - pickup" raises TypeError when one of them is None
calculate_trip_duration(pickup, dropoff) ==
    IF pickup = NULL \/ dropoff = NULL THEN Raised("TypeError")
    ELSE LET seconds == dropoff - pickup
         IN  Value(IF seconds <= 0 THEN 0
                   ELSE RoundQuotient(seconds, 60,
                                      DblDiv(Dbl(seconds, 1), Dbl(60, 1))))

\* (mutant) the evening lasts until 22:00
get_time_of_day_long_evening(pickup) ==
    IF pickup = NULL THEN Raised("AttributeError")
    ELSE LET hour == Hour(pickup)
         IN  Value(IF 6 <= hour /\ hour < 12 THEN "Morning"
                   ELSE IF 12 <= hour /\ hour < 17 THEN "Afternoon"
                   ELSE IF 17 <= hour /\ hour < 22 THEN "Evening"
                   ELSE "Night")

\* "pickup.hour" raises AttributeError on None
get_time_of_day(pickup) ==
    IF pickup = NULL THEN Raised("AttributeError")
    ELSE LET hour == Hour(pickup)
         IN  Value(IF 6 <= hour /\ hour < 12 THEN "Morning"
                   ELSE IF 12 <= hour /\ hour < 17 THEN "Afternoon"
                   ELSE IF 17 <= hour /\ hour < 21 THEN "Evening"
                   ELSE "Night")

\* min(speed, 200), in hundredths of a mile per hour
SpeedCap == 20000

\* distance in hundredths of a mile, duration_minutes in hundredths of a
\* minute: speed = 60 * distance / duration_minutes miles per hour
calculate_speed(distance, duration_minutes) ==
    IF duration_minutes = NULL THEN Raised("TypeError")
    ELSE IF duration_minutes <= 0 THEN Value(0)
    ELSE IF distance = NULL THEN Raised("TypeError")
    ELSE Value(IF 60 * distance >= 200 * duration_minutes THEN SpeedCap
               ELSE LET duration_hours ==
                            DblDiv(Dbl(duration_minutes, 100), Dbl(60, 1))
                        speed == DblDiv(Dbl(distance, 100), duration_hours)
                    IN  RoundQuotient(60 * distance, duration_minutes, speed))

\* "pickup.weekday()" raises AttributeError on None
get_day_type(pickup) ==
    IF pickup = NULL THEN Raised("AttributeError")
    ELSE Value(IF DayOfWeek(pickup) >= 5 THEN "Weekend" ELSE "Weekday")

\* the position of the first of the calls that raises, 0 when all return
FirstRaising(results) ==
    LET raising == {i \in 1..Len(results) : results[i].raised # "none"}
    IN  IF raising = {} THEN 0
        ELSE CHOOSE i \in raising : \A j \in raising : i <= j

\* the features of a trip from the results of its calls in the order
\* Python evaluates them: duration, tip_percentage, time_of_day, speed,
\* day_type
FeaturesOf(results) ==
    IF FirstRaising(results) # 0 THEN results[FirstRaising(results)]
    ELSE Value([tip_percentage |-> results[2].value,
                trip_duration_minutes |-> results[1].value,
                time_of_day |-> results[3].value,
                trip_speed_mph |-> results[4].value,
                day_type |-> results[5].value])

\* the calls of the tuple appended to derived_data, after
\* "duration = calculate_trip_duration(pickup, dropoff)"
FeaturesWith(trip, duration) ==
    FeaturesOf(<<duration,
                 calculate_tip_percentage(trip.tip, trip.fare),
                 get_time_of_day(trip.pickup),
                 calculate_speed(trip.distance, duration.value),
                 get_day_type(trip.pickup)>>)

\* Step 4, "Calculate features" for one trip of the page: the tuple appended
\* to derived_data, or the first exception of its calls in the order Python
\* evaluates them
CalculateFeatures(trip) ==
    FeaturesWith(trip, calculate_trip_duration(trip.pickup, trip.dropoff))

----------------------------------------------------------------------------
(* Helpers *)

RECURSIVE SeqsUpTo(_, _)
SeqsUpTo(S, n) ==
    IF n = 0 THEN {<<>>}
    ELSE LET shorter == SeqsUpTo(S, n - 1)
         IN  shorter \cup {Append(q, x) : q \in {t \in shorter : Len(t) = n - 1},
                                          x \in S}

\* A row of TRIPS_FILE: parses is FALSE when the conversion of one of its
\* fields raises (lines 119-142); the other fields are what the tuple
\* appended to batch_data holds, pickup being NULL for an empty
\* pickup_datetime field (line 121, "row['pickup_datetime'] or None").
CsvRow(parses, pickup) ==
    [parses |-> parses, pickup |-> pickup, dropoff |-> 29700,
     distance |-> 300, fare |-> 1000, tip |-> 200]

\* a row with a malformed number, a complete row (08:00 to 08:15 on
\* 2019-01-01, 3 miles, fare 10.00, tip 2.00), a row without pickup time
CsvRows == {CsvRow(FALSE, 28800), CsvRow(TRUE, 28800), CsvRow(TRUE, NULL)}

EmptyTxn == [trips |-> <<>>, derived |-> <<>>]

Stmt(op, n, ok) == [op |-> op, n |-> n, ok |-> ok]

\* A row of the trips relation with the columns Phase B selects; src is the
\* row of TRIPS_FILE it was parsed from, 0 for a trip of an earlier load.
Trip(trip_id, src, row) ==
    [trip_id |-> trip_id, src |-> src, pickup |-> row.pickup,
     dropoff |-> row.dropoff, distance |-> row.distance, fare |-> row.fare,
     tip |-> row.tip]

\* Rows of the trips relation made from the tuples of a chunk, given as the
\* rows of TRIPS_FILE they were parsed from: the database generates trip_id.
NewTrips(rows, first_id) ==
    [i \in 1..Len(rows) |-> Trip(first_id + i - 1, rows[i], csv_rows[rows[i]])]

\* execute_values sends a chunk of n rows page_size rows at a time inside the
\* open transaction: when it raises, whole pages and less than the chunk are
\* written; when it returns and conn.commit() raises, the n rows are.
WrittenBeforeFailure(n) == {k \in 0..n : k % page_size = 0 \/ k = n}

\* (mutant) the batch is flushed one row late
BatchFullStrict(b) == Len(b) > batch_size

\* if len(batch_data) >= batch_size
BatchFull(b) == Len(b) >= batch_size

\* SELECT ... FROM trips ORDER BY trip_id LIMIT batch_size OFFSET off
SelectPage(rel, off) == SubSeq(rel, off + 1, Min(off + batch_size, Len(rel)))

\* the tuple appended to derived_data
FeatureRow(trip_id, features) ==
    [trip_id |-> trip_id,
     tip_percentage |-> features.tip_percentage,
     trip_duration_minutes |-> features.trip_duration_minutes,
     time_of_day |-> features.time_of_day,
     trip_speed_mph |-> features.trip_speed_mph,
     day_type |-> features.day_type]

\* (mutant) the feature row is keyed by the row of the file, not by trip_id
DerivedRowBySrc(trip) == FeatureRow(trip.src, CalculateFeatures(trip).value)

\* The derived_features row computed for one trip of a page whose feature
\* calls all return.
DerivedRow(trip) == FeatureRow(trip.trip_id, CalculateFeatures(trip).value)

DerivedData(page) == [i \in 1..Len(page) |-> DerivedRow(page[i])]

\* The exception that leaves the loop "for trip in trips" (lines 211-223):
\* that of the first trip of the page one of whose feature calls raises,
\* "none" when the loop runs to its end.
FeatureLoopRaises(page) ==
    IF FirstRaising([i \in 1..Len(page) |-> CalculateFeatures(page[i])]) = 0
    THEN "none"
    ELSE CalculateFeatures(
             page[FirstRaising([i \in 1..Len(page) |->
                                   CalculateFeatures(page[i])])]).raised

\* Number of rows of ZONES_FILE.
ZonesInFile == 2

\* (mutant) the next page starts one row late
NextOffsetSkipsRow(off) == off + batch_size + 1

\* offset += batch_size
NextOffset(off) == off + batch_size

----------------------------------------------------------------------------
(* Initial state: the script has not connected yet.  The destination holds *)
(* the result of zero or more earlier complete loads.                      *)

LoaderInit ==
    /\ pc = "connect"
    /\ csv_rows \in SeqsUpTo(CsvRows, MaxRows)
    /\ pos = 0
    /\ batch_data = <<>>
    /\ total_inserted = 0
    /\ txn = EmptyTxn
    /\ \E pre \in 0..MaxPre :
          /\ trips = [i \in 1..pre |-> Trip(i, 0, CsvRow(TRUE, 28800))]
          /\ derived_features =
                [i \in 1..pre |-> DerivedRow(Trip(i, 0, CsvRow(TRUE, 28800)))]
          /\ next_id = pre + 1
    /\ trip_count = 0
    /\ offset = 0
    /\ processed = 0
    /\ fetched = <<>>
    /\ feature_count = 0
    /\ session = "unbound"
    /\ exc = "none"
    /\ failed_at = "none"
    /\ exit_status = -1
    /\ stmts = <<>>

\* The step of the script a position belongs to: one iteration of Phase B
\* is the page read, the bulk insert and the commit.
StepOf(p) == IF p \in {"insert_features", "commit_features"} THEN "phaseB" ELSE p

\* (mutant) the failure is recorded and the loop goes on with the next chunk
RaiseAndContinue(e) ==
    /\ exc' = e
    /\ failed_at' = StepOf(pc)
    /\ pc' = pc

\* An exception of kind e raised at the current step inside the try block.
Raise(e) ==
    /\ exc' = e
    /\ failed_at' = StepOf(pc)
    /\ pc' = IF e = "SystemExit" THEN "finally" ELSE "except"

----------------------------------------------------------------------------
(* Steps 1 and 2 *)

\* psycopg2.connect, conn.set_session and conn.cursor return
Connect ==
    /\ pc = "connect"
    /\ pc' = "schema"
    /\ session' = "cursor"
    /\ UNCHANGED <<csv_rows, pos, batch_data, total_inserted, txn, trips,
                   derived_features, next_id, trip_count, offset, processed,
                   fetched, feature_count, exc, failed_at, exit_status,
                   stmts>>
    /\ UNCHANGED <<pipeline_vars, call_vars>>

\* psycopg2.connect raises: conn stays unbound
ConnectFails ==
    /\ pc = "connect"
    /\ Raise("OperationalError")
    /\ UNCHANGED <<csv_rows, pos, batch_data, total_inserted, txn, trips,
                   derived_features, next_id, trip_count, offset, processed,
                   fetched, feature_count, session, exit_status, stmts>>
    /\ UNCHANGED <<pipeline_vars, call_vars>>

\* psycopg2.connect returns and conn.set_session or conn.cursor raises: conn
\* is bound and cursor is not
SessionFails ==
    /\ pc = "connect"
    /\ session' = "conn"
    /\ Raise("OperationalError")
    /\ UNCHANGED <<csv_rows, pos, batch_data, total_inserted, txn, trips,
                   derived_features, next_id, trip_count, offset, processed,
                   fetched, feature_count, exit_status, stmts>>
    /\ UNCHANGED <<pipeline_vars, call_vars>>

\* if not os.path.exists(SCHEMA_FILE): exit(1)
SchemaMissing ==
    /\ pc = "schema"
    /\ Raise("SystemExit")
    /\ UNCHANGED <<csv_rows, pos, batch_data, total_inserted, txn, trips,
                   derived_features, next_id, trip_count, offset, processed,
                   fetched, feature_count, session, exit_status, stmts>>
    /\ UNCHANGED <<pipeline_vars, call_vars>>

RunSchema ==
    /\ pc = "schema"
    /\ pc' = "zones"
    /\ stmts' = stmts \o <<Stmt("schema", 0, TRUE), Stmt("commit", 0, TRUE)>>
    /\ UNCHANGED <<csv_rows, pos, batch_data, total_inserted, txn, trips,
                   derived_features, next_id, trip_count, offset, processed,
                   fetched, feature_count, session, exc, failed_at,
                   exit_status>>
    /\ UNCHANGED <<pipeline_vars, call_vars>>

\* cursor.execute(schema_sql) raises, or it returns and conn.commit() raises
RunSchemaFails ==
    /\ pc = "schema"
    /\ Raise("DatabaseError")
    /\ \/ stmts' = Append(stmts, Stmt("schema", 0, FALSE))
       \/ stmts' = stmts \o <<Stmt("schema", 0, TRUE), Stmt("commit", 0, FALSE)>>
    /\ UNCHANGED <<csv_rows, pos, batch_data, total_inserted, txn, trips,
                   derived_features, next_id, trip_count, offset, processed,
                   fetched, feature_count, session, exit_status>>
    /\ UNCHANGED <<pipeline_vars, call_vars>>

\* open(ZONES_FILE) raises when the file is missing
ZonesMissing ==
    /\ pc = "zones"
    /\ Raise("FileNotFoundError")
    /\ UNCHANGED <<csv_rows, pos, batch_data, total_inserted, txn, trips,
                   derived_features, next_id, trip_count, offset, processed,
                   fetched, feature_count, session, exit_status, stmts>>
    /\ UNCHANGED <<pipeline_vars, call_vars>>

\* COPY zones, commit, SELECT COUNT(*) FROM zones
LoadZones ==
    /\ pc = "zones"
    /\ pc' = "open_trips"
    /\ stmts' = stmts \o <<Stmt("copy_zones", 0, TRUE), Stmt("commit", 0, TRUE),
                           Stmt("count_zones", ZonesInFile, TRUE)>>
    /\ UNCHANGED <<csv_rows, pos, batch_data, total_inserted, txn, trips,
                   derived_features, next_id, trip_count, offset, processed,
                   fetched, feature_count, session, exc, failed_at,
                   exit_status>>
    /\ UNCHANGED <<pipeline_vars, call_vars>>

\* the COPY raises, or it returns and conn.commit() raises
LoadZonesFails ==
    /\ pc = "zones"
    /\ Raise("DatabaseError")
    /\ \/ stmts' = Append(stmts, Stmt("copy_zones", 0, FALSE))
       \/ stmts' = stmts \o <<Stmt("copy_zones", 0, TRUE),
                              Stmt("commit", 0, FALSE)>>
    /\ UNCHANGED <<csv_rows, pos, batch_data, total_inserted, txn, trips,
                   derived_features, next_id, trip_count, offset, processed,
                   fetched, feature_count, session, exit_status>>
    /\ UNCHANGED <<pipeline_vars, call_vars>>

\* the zones are loaded and committed, SELECT COUNT(*) FROM zones raises
CountZonesFails ==
    /\ pc = "zones"
    /\ Raise("DatabaseError")
    /\ stmts' = stmts \o <<Stmt("copy_zones", 0, TRUE), Stmt("commit", 0, TRUE),
                           Stmt("count_zones", 0, FALSE)>>
    /\ UNCHANGED <<csv_rows, pos, batch_data, total_inserted, txn, trips,
                   derived_features, next_id, trip_count, offset, processed,
                   fetched, feature_count, session, exit_status>>
    /\ UNCHANGED <<pipeline_vars, call_vars>>

----------------------------------------------------------------------------
(* Step 3, Phase A: load trips *)

\* open(TRIPS_FILE) raises when the file is missing
TripsMissing ==
    /\ pc = "open_trips"
    /\ Raise("FileNotFoundError")
    /\ UNCHANGED <<csv_rows, pos, batch_data, total_inserted, txn, trips,
                   derived_features, next_id, trip_count, offset, processed,
                   fetched, feature_count, session, exit_status, stmts>>
    /\ UNCHANGED <<pipeline_vars, call_vars>>

OpenTrips ==
    /\ pc = "open_trips"
    /\ pc' = "phaseA"
    /\ batch_data' = <<>>
    /\ total_inserted' = 0
    /\ UNCHANGED <<csv_rows, pos, txn, trips, derived_features, next_id,
                   trip_count, offset, processed, fetched, feature_count,
                   session, exc, failed_at, exit_status, stmts>>
    /\ UNCHANGED <<pipeline_vars, call_vars>>

\* (mutant) the counter grows by batch_size whatever the size of the chunk
InsertChunkCountsBatchSize(chunk) ==
    /\ trips' = trips \o NewTrips(chunk, next_id)
    /\ next_id' = next_id + Len(chunk)
    /\ total_inserted' = total_inserted + batch_size
    /\ stmts' = stmts \o <<Stmt("insert_trips", Len(chunk), TRUE),
                           Stmt("commit", 0, TRUE)>>
    /\ UNCHANGED txn

\* execute_values(INSERT INTO trips ...), conn.commit() and
\* "total_inserted += len(batch_data)" for one chunk
InsertChunk(chunk) ==
    /\ trips' = trips \o NewTrips(chunk, next_id)
    /\ next_id' = next_id + Len(chunk)
    /\ total_inserted' = total_inserted + Len(chunk)
    /\ stmts' = stmts \o <<Stmt("insert_trips", Len(chunk), TRUE),
                           Stmt("commit", 0, TRUE)>>
    /\ UNCHANGED txn

\* the same, raising after k rows were written inside the transaction:
\* execute_values raises for k below the size of the chunk, conn.commit() for
\* the whole chunk
InsertChunkFails(chunk, k) ==
    /\ txn' = [txn EXCEPT !.trips = NewTrips(SubSeq(chunk, 1, k), next_id)]
    /\ next_id' = next_id + k
    /\ stmts' = IF k < Len(chunk)
                THEN Append(stmts, Stmt("insert_trips", Len(chunk), FALSE))
                ELSE stmts \o <<Stmt("insert_trips", Len(chunk), TRUE),
                                Stmt("commit", 0, FALSE)>>
    /\ Raise("DatabaseError")
    /\ batch_data' = chunk
    /\ UNCHANGED <<trips, total_inserted>>

\* one iteration of "for row in reader" whose field parsing raises
ReadBadRow ==
    /\ pc = "phaseA"
    /\ pos < Len(csv_rows)
    /\ ~csv_rows[pos + 1].parses
    /\ pos' = pos + 1
    /\ UNCHANGED <<pc, csv_rows, batch_data, total_inserted, txn, trips,
                   derived_features, next_id, trip_count, offset, processed,
                   fetched, feature_count, session, exc, failed_at,
                   exit_status, stmts>>
    /\ UNCHANGED <<pipeline_vars, call_vars>>

\* one iteration that parses the row and leaves the batch below batch_size
ReadRow ==
    /\ pc = "phaseA"
    /\ pos < Len(csv_rows)
    /\ csv_rows[pos + 1].parses
    /\ ~BatchFull(Append(batch_data, pos + 1))
    /\ pos' = pos + 1
    /\ batch_data' = Append(batch_data, pos + 1)
    /\ UNCHANGED <<pc, csv_rows, total_inserted, txn, trips,
                   derived_features, next_id, trip_count, offset, processed,
                   fetched, feature_count, session, exc, failed_at,
                   exit_status, stmts>>
    /\ UNCHANGED <<pipeline_vars, call_vars>>

\* one iteration that parses the row, fills the batch, inserts it and
\* starts a new batch ("batch_data = []")
ReadRowAndInsert ==
    /\ pc = "phaseA"
    /\ pos < Len(csv_rows)
    /\ csv_rows[pos + 1].parses
    /\ BatchFull(Append(batch_data, pos + 1))
    /\ pos' = pos + 1
    /\ InsertChunk(Append(batch_data, pos + 1))
    /\ batch_data' = <<>>
    /\ UNCHANGED <<pc, csv_rows, derived_features, trip_count, offset,
                   processed, fetched, feature_count, session, exc,
                   failed_at, exit_status>>
    /\ UNCHANGED <<pipeline_vars, call_vars>>

ReadRowAndInsertFails ==
    /\ pc = "phaseA"
    /\ pos < Len(csv_rows)
    /\ csv_rows[pos + 1].parses
    /\ BatchFull(Append(batch_data, pos + 1))
    /\ pos' = pos + 1
    /\ \E k \in WrittenBeforeFailure(Len(batch_data) + 1) :
          InsertChunkFails(Append(batch_data, pos + 1), k)
    /\ UNCHANGED <<csv_rows, derived_features, trip_count, offset, processed,
                   fetched, feature_count, session, exit_status>>
    /\ UNCHANGED <<pipeline_vars, call_vars>>

\* "if batch_data:" after the loop, with rows left over; batch_data keeps
\* them
InsertRemaining ==
    /\ pc = "phaseA"
    /\ pos = Len(csv_rows)
    /\ batch_data # <<>>
    /\ pc' = "count_trips"
    /\ InsertChunk(batch_data)
    /\ UNCHANGED <<csv_rows, pos, batch_data, derived_features, trip_count, offset,
                   processed, fetched, feature_count, session, exc,
                   failed_at, exit_status>>
    /\ UNCHANGED <<pipeline_vars, call_vars>>

InsertRemainingFails ==
    /\ pc = "phaseA"
    /\ pos = Len(csv_rows)
    /\ batch_data # <<>>
    /\ \E k \in WrittenBeforeFailure(Len(batch_data)) :
          InsertChunkFails(batch_data, k)
    /\ UNCHANGED <<csv_rows, pos, derived_features, trip_count, offset,
                   processed, fetched, feature_count, session,
                   exit_status>>
    /\ UNCHANGED <<pipeline_vars, call_vars>>

\* "if batch_data:" after the loop, with nothing left over
NothingRemaining ==
    /\ pc = "phaseA"
    /\ pos = Len(csv_rows)
    /\ batch_data = <<>>
    /\ pc' = "count_trips"
    /\ UNCHANGED <<csv_rows, pos, batch_data, total_inserted, txn, trips,
                   derived_features, next_id, trip_count, offset, processed,
                   fetched, feature_count, session, exc, failed_at,
                   exit_status, stmts>>
    /\ UNCHANGED <<pipeline_vars, call_vars>>

\* SELECT COUNT(*) FROM trips; batch_size, offset, processed are reset
CountTrips ==
    /\ pc = "count_trips"
    /\ pc' = "phaseB"
    /\ trip_count' = Len(trips)
    /\ offset' = 0
    /\ processed' = 0
    /\ stmts' = Append(stmts, Stmt("count_trips", Len(trips), TRUE))
    /\ UNCHANGED <<csv_rows, pos, batch_data, total_inserted, txn, trips,
                   derived_features, next_id, fetched, feature_count,
                   session, exc, failed_at, exit_status>>
    /\ UNCHANGED <<pipeline_vars, call_vars>>

CountTripsFails ==
    /\ pc = "count_trips"
    /\ Raise("DatabaseError")
    /\ stmts' = Append(stmts, Stmt("count_trips", 0, FALSE))
    /\ UNCHANGED <<csv_rows, pos, batch_data, total_inserted, txn, trips,
                   derived_features, next_id, trip_count, offset, processed,
                   fetched, feature_count, session, exit_status>>
    /\ UNCHANGED <<pipeline_vars, call_vars>>

----------------------------------------------------------------------------
(* Step 4, Phase B: derived features.  One iteration of the loop is three  *)
(* round trips to the database: the page SELECT, the bulk INSERT and the   *)
(* COMMIT.                                                                 *)

\* "while offset < trip_count": the page is read; an empty page breaks out
\* of the loop ("if not trips: break"), for any other page the feature loop
\* runs to its end and the bulk insert is next
FetchPage ==
    /\ pc = "phaseB"
    /\ offset < trip_count
    /\ LET page == SelectPage(trips, offset)
       IN  /\ FeatureLoopRaises(page) = "none"
           /\ fetched' = page
           /\ stmts' = Append(stmts, Stmt("select_page", Len(page), TRUE))
           /\ pc' = IF page = <<>> THEN "count_features" ELSE "insert_features"
    /\ UNCHANGED <<csv_rows, pos, batch_data, total_inserted, txn, trips,
                   derived_features, next_id, trip_count, offset, processed,
                   feature_count, session, exc, failed_at, exit_status>>
    /\ UNCHANGED <<pipeline_vars, call_vars>>

\* the page is read and a feature call of the loop raises: a trip of the
\* page has no pickup_datetime
FetchPageFeaturesRaise ==
    /\ pc = "phaseB"
    /\ offset < trip_count
    /\ LET page == SelectPage(trips, offset)
       IN  /\ FeatureLoopRaises(page) # "none"
           /\ fetched' = page
           /\ stmts' = Append(stmts, Stmt("select_page", Len(page), TRUE))
           /\ Raise(FeatureLoopRaises(page))
    /\ UNCHANGED <<csv_rows, pos, batch_data, total_inserted, txn, trips,
                   derived_features, next_id, trip_count, offset, processed,
                   feature_count, session, exit_status>>
    /\ UNCHANGED <<pipeline_vars, call_vars>>

\* the page SELECT raises
FetchPageFails ==
    /\ pc = "phaseB"
    /\ offset < trip_count
    /\ stmts' = Append(stmts, Stmt("select_page", 0, FALSE))
    /\ Raise("DatabaseError")
    /\ UNCHANGED <<csv_rows, pos, batch_data, total_inserted, txn, trips,
                   derived_features, next_id, trip_count, offset, processed,
                   fetched, feature_count, session, exit_status>>
    /\ UNCHANGED <<pipeline_vars, call_vars>>

\* execute_values(INSERT INTO derived_features ...) for the page
InsertFeatures ==
    /\ pc = "insert_features"
    /\ pc' = "commit_features"
    /\ txn' = [txn EXCEPT !.derived = DerivedData(fetched)]
    /\ stmts' = Append(stmts, Stmt("insert_features", Len(fetched), TRUE))
    /\ UNCHANGED <<csv_rows, pos, batch_data, total_inserted, trips,
                   derived_features, next_id, trip_count, offset, processed,
                   fetched, feature_count, session, exc, failed_at,
                   exit_status>>
    /\ UNCHANGED <<pipeline_vars, call_vars>>

\* the bulk insert raises after k rows of the page were written
InsertFeaturesFails ==
    /\ pc = "insert_features"
    /\ \E k \in WrittenBeforeFailure(Len(fetched)) \ {Len(fetched)} :
          txn' = [txn EXCEPT !.derived = DerivedData(SubSeq(fetched, 1, k))]
    /\ stmts' = Append(stmts, Stmt("insert_features", Len(fetched), FALSE))
    /\ Raise("DatabaseError")
    /\ UNCHANGED <<csv_rows, pos, batch_data, total_inserted, trips,
                   derived_features, next_id, trip_count, offset, processed,
                   fetched, feature_count, session, exit_status>>
    /\ UNCHANGED <<pipeline_vars, call_vars>>

\* conn.commit(); processed += len(trips); offset += batch_size
CommitFeatures ==
    /\ pc = "commit_features"
    /\ pc' = "phaseB"
    /\ derived_features' = derived_features \o txn.derived
    /\ txn' = [txn EXCEPT !.derived = <<>>]
    /\ processed' = processed + Len(fetched)
    /\ offset' = NextOffset(offset)
    /\ stmts' = Append(stmts, Stmt("commit", 0, TRUE))
    /\ UNCHANGED <<csv_rows, pos, batch_data, total_inserted, trips, next_id,
                   trip_count, fetched, feature_count, session, exc,
                   failed_at, exit_status>>
    /\ UNCHANGED <<pipeline_vars, call_vars>>

\* the commit raises
CommitFeaturesFails ==
    /\ pc = "commit_features"
    /\ stmts' = Append(stmts, Stmt("commit", 0, FALSE))
    /\ Raise("DatabaseError")
    /\ UNCHANGED <<csv_rows, pos, batch_data, total_inserted, txn, trips,
                   derived_features, next_id, trip_count, offset, processed,
                   fetched, feature_count, session, exit_status>>
    /\ UNCHANGED <<pipeline_vars, call_vars>>

\* the loop condition "offset < trip_count" is false
BackfillDone ==
    /\ pc = "phaseB"
    /\ ~(offset < trip_count)
    /\ pc' = "count_features"
    /\ UNCHANGED <<csv_rows, pos, batch_data, total_inserted, txn, trips,
                   derived_features, next_id, trip_count, offset, processed,
                   fetched, feature_count, session, exc, failed_at,
                   exit_status, stmts>>
    /\ UNCHANGED <<pipeline_vars, call_vars>>

\* SELECT COUNT(*) FROM derived_features
CountFeatures ==
    /\ pc = "count_features"
    /\ pc' = "indexes"
    /\ feature_count' = Len(derived_features)
    /\ stmts' = Append(stmts, Stmt("count_features", Len(derived_features), TRUE))
    /\ UNCHANGED <<csv_rows, pos, batch_data, total_inserted, txn, trips,
                   derived_features, next_id, trip_count, offset, processed,
                   fetched, session, exc, failed_at, exit_status>>
    /\ UNCHANGED <<pipeline_vars, call_vars>>

CountFeaturesFails ==
    /\ pc = "count_features"
    /\ Raise("DatabaseError")
    /\ stmts' = Append(stmts, Stmt("count_features", 0, FALSE))
    /\ UNCHANGED <<csv_rows, pos, batch_data, total_inserted, txn, trips,
                   derived_features, next_id, trip_count, offset, processed,
                   fetched, feature_count, session, exit_status>>
    /\ UNCHANGED <<pipeline_vars, call_vars>>

----------------------------------------------------------------------------
(* Step 5, verification, and the handlers *)

CreateIndexes ==
    /\ pc = "indexes"
    /\ pc' = "verify"
    /\ stmts' = stmts \o <<Stmt("create_index", 0, TRUE), Stmt("commit", 0, TRUE)>>
    /\ UNCHANGED <<csv_rows, pos, batch_data, total_inserted, txn, trips,
                   derived_features, next_id, trip_count, offset, processed,
                   fetched, feature_count, session, exc, failed_at,
                   exit_status>>
    /\ UNCHANGED <<pipeline_vars, call_vars>>

\* an index statement raises, or they return and conn.commit() raises
CreateIndexesFails ==
    /\ pc = "indexes"
    /\ Raise("DatabaseError")
    /\ \/ stmts' = Append(stmts, Stmt("create_index", 0, FALSE))
       \/ stmts' = stmts \o <<Stmt("create_index", 0, TRUE),
                              Stmt("commit", 0, FALSE)>>
    /\ UNCHANGED <<csv_rows, pos, batch_data, total_inserted, txn, trips,
                   derived_features, next_id, trip_count, offset, processed,
                   fetched, feature_count, session, exit_status>>
    /\ UNCHANGED <<pipeline_vars, call_vars>>

\* the sample query and the closing prints; the try block ends
Verify ==
    /\ pc = "verify"
    /\ pc' = "finally"
    /\ stmts' = Append(stmts, Stmt("sample_query", 0, TRUE))
    /\ UNCHANGED <<csv_rows, pos, batch_data, total_inserted, txn, trips,
                   derived_features, next_id, trip_count, offset, processed,
                   fetched, feature_count, session, exc, failed_at,
                   exit_status>>
    /\ UNCHANGED <<pipeline_vars, call_vars>>

\* the sample query raises
VerifyFails ==
    /\ pc = "verify"
    /\ Raise("DatabaseError")
    /\ stmts' = Append(stmts, Stmt("sample_query", 0, FALSE))
    /\ UNCHANGED <<csv_rows, pos, batch_data, total_inserted, txn, trips,
                   derived_features, next_id, trip_count, offset, processed,
                   fetched, feature_count, session, exit_status>>
    /\ UNCHANGED <<pipeline_vars, call_vars>>

\* (mutant) the handler commits what the failed statement had written
AfterCommit(rel, written) == rel \o written

\* conn.rollback(): the committed relation is what it was before the open
\* transaction wrote the rows "written"
AfterRollback(rel, written) == rel

\* except Exception as e: conn.rollback(); print; traceback.  When connect
\* itself failed, conn is unbound and the handler raises NameError.
Except ==
    /\ pc = "except"
    /\ pc' = "finally"
    /\ IF session # "unbound"
       THEN /\ trips' = AfterRollback(trips, txn.trips)
            /\ derived_features' = AfterRollback(derived_features, txn.derived)
            /\ txn' = EmptyTxn
            /\ stmts' = Append(stmts, Stmt("rollback", 0, TRUE))
            /\ exc' = "none"
       ELSE /\ exc' = "NameError"
            /\ UNCHANGED <<txn, trips, derived_features, stmts>>
    /\ UNCHANGED <<csv_rows, pos, batch_data, total_inserted, next_id,
                   trip_count, offset, processed, fetched, feature_count,
                   session, failed_at, exit_status>>
    /\ UNCHANGED <<pipeline_vars, call_vars>>

\* conn.rollback() raises in the handler: the lines after it do not run and
\* the new exception leaves the try statement through the finally block
ExceptRollbackFails ==
    /\ pc = "except"
    /\ session # "unbound"
    /\ pc' = "finally"
    /\ stmts' = Append(stmts, Stmt("rollback", 0, FALSE))
    /\ exc' = "InterfaceError"
    /\ UNCHANGED <<csv_rows, pos, batch_data, total_inserted, txn, trips,
                   derived_features, next_id, trip_count, offset, processed,
                   fetched, feature_count, session, failed_at, exit_status>>
    /\ UNCHANGED <<pipeline_vars, call_vars>>

\* Exit status of the interpreter: 0 when the script runs off its end, the
\* argument of exit() for SystemExit, 1 for an uncaught exception.
ExitStatus(e) == IF e = "none" THEN 0 ELSE 1

\* finally: cursor.close(); conn.close(); then the process ends and the
\* server discards what an open transaction wrote.  With cursor unbound,
\* cursor.close() raises NameError and conn.close() is not reached.
Finally ==
    /\ pc = "finally"
    /\ pc' = "exited"
    /\ IF session = "cursor"
       THEN /\ session' = "closed"
            /\ exit_status' = ExitStatus(exc)
            /\ UNCHANGED exc
       ELSE /\ exc' = "NameError"
            /\ exit_status' = ExitStatus("NameError")
            /\ UNCHANGED session
    /\ txn' = EmptyTxn
    /\ UNCHANGED <<csv_rows, pos, batch_data, total_inserted, trips,
                   derived_features, next_id, trip_count, offset, processed,
                   fetched, feature_count, failed_at, stmts>>
    /\ UNCHANGED <<pipeline_vars, call_vars>>

----------------------------------------------------------------------------
(* Another session removes a persisted trip, with the committed            *)
(* derived_features rows that reference it, between two statements of      *)
(* Phase B.                                                                *)

RemoveAt(seq, i) == SubSeq(seq, 1, i - 1) \o SubSeq(seq, i + 1, Len(seq))

RemoveTrip ==
    /\ StepOf(pc) = "phaseB"
    /\ \E i \in 1..Len(trips) :
          /\ trips' = RemoveAt(trips, i)
          /\ derived_features' =
                SelectSeq(derived_features,
                          LAMBDA d : d.trip_id # trips[i].trip_id)
    /\ UNCHANGED <<pc, csv_rows, pos, batch_data, total_inserted, txn,
                   next_id, trip_count, offset, processed, fetched,
                   feature_count, session, exc, failed_at, exit_status,
                   stmts>>
    /\ UNCHANGED <<pipeline_vars, call_vars>>

----------------------------------------------------------------------------

Startup == \/ Connect \/ ConnectFails \/ SessionFails
           \/ SchemaMissing \/ RunSchema \/ RunSchemaFails
           \/ ZonesMissing \/ LoadZones \/ LoadZonesFails \/ CountZonesFails

PhaseA == \/ TripsMissing \/ OpenTrips
          \/ ReadBadRow \/ ReadRow \/ ReadRowAndInsert \/ ReadRowAndInsertFails
          \/ InsertRemaining \/ InsertRemainingFails \/ NothingRemaining
          \/ CountTrips \/ CountTripsFails

PhaseB == \/ FetchPage \/ FetchPageFeaturesRaise \/ FetchPageFails
          \/ InsertFeatures \/ InsertFeaturesFails
          \/ CommitFeatures \/ CommitFeaturesFails
          \/ BackfillDone \/ CountFeatures \/ CountFeaturesFails

Closing == \/ CreateIndexes \/ CreateIndexesFails \/ Verify \/ VerifyFails
           \/ Except \/ ExceptRollbackFails \/ Finally

Next == Startup \/ PhaseA \/ PhaseB \/ Closing

\* self.stats as __init__ leaves it
NewStats ==
    [initial_rows |-> 0, final_rows |-> 0, removed_null_required |-> 0,
     removed_invalid_fare |-> 0, removed_invalid_distance |-> 0,
     removed_invalid_passenger |-> 0, removed_invalid_datetime |-> 0,
     removed_outliers |-> 0, removed_duplicates |-> 0, total_removed |-> 0]

\* the cleaner as constructed, with nothing to clean
PipelineIdle ==
    /\ ppc = "load_data"
    /\ raw = <<>>
    /\ df = <<>>
    /\ cstats = NewStats
    /\ calls = <<>>
    /\ output = <<>>
    /\ result = "none"

\* no library function is being called on its own
NoCall ==
    /\ fn = "none"
    /\ args = <<>>
    /\ ret = <<>>
    /\ stats = <<>>
    /\ invocations = 0

Init == LoaderInit /\ PipelineIdle /\ NoCall

Spec == Init /\ [][Next]_vars

NextConcurrent == Next \/ RemoveTrip

SpecConcurrent == Init /\ [][NextConcurrent]_vars
----------------------------------------------------------------------------
(***************************************************************************)
(* Part 2: TaxiDataCleaner.run_pipeline (src/data_cleaning.py) with the    *)
(* validator of src/manual_algorithm.py.                                   *)
(*                                                                         *)
(* Units: timestamps are seconds since 2019-01-01T00:00:00, money is in    *)
(* cents, trip_distance in hundredths of a mile, passenger_count in        *)
(* tenths.  The columns engineer_features adds are not rounded by the      *)
(* code; the model keeps each as the fraction <<numerator, denominator>>   *)
(* of the exact quotient.                                                  *)
(***************************************************************************)

MaxDf == 2

SecondsPerYear2019 == 31536000

Row(pickup, dropoff, dist, fare, tip, passengers, extra, pu, do) ==
    [tpep_pickup_datetime |-> pickup, tpep_dropoff_datetime |-> dropoff,
     trip_distance |-> dist, fare_amount |-> fare, tip_amount |-> tip,
     passenger_count |-> passengers, extra |-> extra,
     PULocationID |-> pu, DOLocationID |-> do, features |-> <<>>]

\* The rows the input file is drawn from: two clean trips, trips that each
\* break one rule of the pipeline, a trip with a fractional passenger_count
\* (the column is float64), and two trips at 200 mph: 100 miles in half an
\* hour, and 28.5 miles in 513 seconds, whose temp_speed is
\* 200.00000000000003.
RawRows ==
    { Row(28800, 29700, 300, 1000, 200, 10, 0, 1, 2),
      Row(50000, 50600, 150, 800, NULL, NULL, NULL, 3, 4),
      Row(NULL, 29700, 300, 1000, 200, 10, 0, 1, 2),
      Row(28800, 29700, 300, NULL, 200, 10, 0, 1, 2),
      Row(28800, 29700, 300, 1000, 200, 10, 0, 1, NULL),
      Row(28800, 29700, 300, -500, 200, 10, 0, 1, 2),
      Row(28800, 29700, 300, 60000, 0, 10, 0, 1, 2),
      Row(28800, 29700, 0, 1000, 200, 10, 0, 1, 2),
      Row(28800, 29700, 300, 1000, 200, 70, 0, 1, 2),
      Row(28800, 28800, 300, 1000, 200, 10, 0, 1, 2),
      Row(28800, 28805, 300, 1000, 200, 10, 0, 1, 2),
      Row(-100, 800, 300, 1000, 200, 10, 0, 1, 2),
      Row(28800, 29700, 9000, 1000, 200, 10, 0, 1, 2),
      Row(28800, 29700, 300, 1000, 200, 10, -50, 1, 2),
      Row(28800, 29700, 300, 1000, 200, 65, 0, 1, 2),
      Row(28800, 30600, 10000, 1000, 200, 10, 0, 1, 2),
      Row(28800, 29313, 2850, 1000, 200, 10, 0, 1, 2) }

\* An input file of eleven clean trips a minute apart, ten with a fare of
\* 1.00 and the last with a fare of 2.00: the last fare is 3.02 sample
\* standard deviations above the mean of the fares.
StatisticalOutlierData ==
    [i \in 1..11 |->
        Row(28800 + 60 * i, 29700 + 60 * i, 300,
            IF i = 11 THEN 200 ELSE 100, 0, 10, 0, 1, 2)]

\* the cleaner as constructed, before run_pipeline
PipelineInit ==
    /\ ppc = "load_data"
    /\ raw \in SeqsUpTo(RawRows, MaxDf) \cup {StatisticalOutlierData}
    /\ df = <<>>
    /\ cstats = NewStats
    /\ calls = <<>>
    /\ output = <<>>
    /\ result = "none"

\* the loader script is not running
LoaderIdle ==
    /\ pc = "connect"
    /\ csv_rows = <<>>
    /\ pos = 0
    /\ batch_data = <<>>
    /\ total_inserted = 0
    /\ txn = EmptyTxn
    /\ trips = <<>>
    /\ derived_features = <<>>
    /\ next_id = 1
    /\ trip_count = 0
    /\ offset = 0
    /\ processed = 0
    /\ fetched = <<>>
    /\ feature_count = 0
    /\ session = "unbound"
    /\ exc = "none"
    /\ failed_at = "none"
    /\ exit_status = -1
    /\ stmts = <<>>

(* ManualDataValidator *)

\* (mutant) the fare rule without its lower bounds
is_valid_fare_no_minimum(fare_amount) ==
    /\ fare_amount # NULL
    /\ ~(fare_amount > 50000)

is_valid_fare(fare_amount) ==
    /\ fare_amount # NULL
    /\ ~(fare_amount < 0)
    /\ ~(fare_amount < 1)
    /\ ~(fare_amount > 50000)

is_valid_distance(trip_distance) ==
    /\ trip_distance # NULL
    /\ ~(trip_distance <= 0)
    /\ ~(trip_distance > 10000)

\* int(x): truncation toward zero of a value kept in tenths
IntOfTenths(x) == IF x >= 0 THEN x \div 10 ELSE -((-x) \div 10)

is_valid_passenger_count(passenger_count) ==
    /\ passenger_count # NULL
    /\ LET count == IntOfTenths(passenger_count)
       IN  ~(count < 1 \/ count > 6)

is_valid_datetime_range(pickup_time, dropoff_time) ==
    /\ pickup_time # NULL /\ dropoff_time # NULL
    /\ ~(dropoff_time <= pickup_time)
    /\ LET duration_seconds == dropoff_time - pickup_time
       IN  /\ ~(duration_seconds < 10)
           /\ ~(duration_seconds > 86400)

\* .dt.year == 2019
YearIs2019(t) == t >= 0 /\ t < SecondsPerYear2019

(* ManualOutlierDetector *)
(* The values of a column are in hundredths (10 is 0.1, 100 is 1.0), NULL  *)
(* for None and NaN; thresholds are in tenths (30 is 3.0).  The mean, the  *)
(* standard deviation and a z-score are doubles, computed with the double  *)
(* operations in the order of the code.                                    *)

\* float(value) of a column value
Float(value) == Dbl(value, 100)

\* the loop of calculate_mean from position i on: <<total, count>>
\* (0.0 + x is x)
RECURSIVE MeanLoop(_, _, _, _)
MeanLoop(values, i, total, count) ==
    IF i > Len(values) THEN <<total, count>>
    ELSE IF values[i] = NULL THEN MeanLoop(values, i + 1, total, count)
    ELSE IF total[1] = 0
    THEN MeanLoop(values, i + 1, Float(values[i]), count + 1)
    ELSE MeanLoop(values, i + 1, DblAdd(total, Float(values[i])), count + 1)

\* "total / count if count > 0 else 0.0" for acc = <<total, count>>
MeanOf(acc) == IF acc[2] > 0 THEN DblDiv(acc[1], Dbl(acc[2], 1)) ELSE DblZero

calculate_mean(values) ==
    IF values = <<>> THEN DblZero ELSE MeanOf(MeanLoop(values, 1, DblZero, 0))

\* diff * diff
Square(diff) == DblMul(diff, diff)

\* the loop of calculate_std_dev from position i on: <<squared_diffs, count>>
RECURSIVE StdDevLoop(_, _, _, _, _)
StdDevLoop(values, mean, i, squared_diffs, count) ==
    IF i > Len(values) THEN <<squared_diffs, count>>
    ELSE IF values[i] = NULL
    THEN StdDevLoop(values, mean, i + 1, squared_diffs, count)
    ELSE IF squared_diffs[1] = 0
    THEN StdDevLoop(values, mean, i + 1,
                    Square(DblSub(Float(values[i]), mean)), count + 1)
    ELSE StdDevLoop(values, mean, i + 1,
                    DblAdd(squared_diffs,
                           Square(DblSub(Float(values[i]), mean))),
                    count + 1)

\* "if count < 2: return 0.0" and the root of squared_diffs / (count - less)
\* for acc = <<squared_diffs, count>>
RootOfVariance(acc, less) ==
    IF acc[2] < 2 THEN DblZero
    ELSE DblSqrt(DblDiv(acc[1], Dbl(acc[2] - less, 1)))

\* (mutant) the population variance: division by count
calculate_std_dev_population(values, mean) ==
    IF values = <<>> \/ Len(values) < 2 THEN DblZero
    ELSE RootOfVariance(StdDevLoop(values, mean, 1, DblZero, 0), 0)

calculate_std_dev(values, mean) ==
    IF values = <<>> \/ Len(values) < 2 THEN DblZero
    ELSE RootOfVariance(StdDevLoop(values, mean, 1, DblZero, 0), 1)

\* "std_dev == 0" is a comparison of doubles: it holds when the computed
\* deviation is 0.0, not when it is the residue of a rounding error
calculate_z_score(value, mean, std_dev) ==
    IF std_dev[1] = 0 THEN DblZero
    ELSE DblDiv(DblSub(Float(value), mean), std_dev)

\* abs(z_score) > self.threshold
ExceedsThreshold(z_score, threshold) ==
    DblCmp(DblAbs(z_score), Dbl(threshold, 10)) > 0

\* the entry detect_outliers appends for values[i] of column col: the value;
\* the score, the mean and the deviation rounded, in hundredths
OutlierEntry(col, values, i, mean, std_dev) ==
    [column |-> col,
     value |-> values[i],
     z_score |-> DblHundredths(calculate_z_score(values[i], mean, std_dev)),
     mean |-> DblHundredths(mean),
     std_dev |-> DblHundredths(std_dev)]

\* <<mean, std_dev>> of a column, the deviation taken about the mean
WithStdDev(values, mean) == <<mean, calculate_std_dev(values, mean)>>

\* "mean = self.calculate_mean(values)" and
\* "std_dev = self.calculate_std_dev(values, mean)": <<mean, std_dev>>
ColumnStatistics(values) == WithStdDev(values, calculate_mean(values))

\* the rows, counted from 1, of the values that "for idx, value in
\* enumerate(values)" finds beyond the threshold, for st = <<mean, std_dev>>
Flagged(values, st, threshold) ==
    {i \in 1..Len(values) :
        /\ values[i] # NULL
        /\ ExceedsThreshold(calculate_z_score(values[i], st[1], st[2]),
                            threshold)}

\* self.stats after "self.stats[col] = {...}"
Stored(self_stats, col, st, threshold) ==
    [c \in DOMAIN self_stats \cup {col} |->
        IF c = col
        THEN [mean |-> st[1], std_dev |-> st[2], threshold |-> threshold]
        ELSE self_stats[c]]

\* (mutant) a row already recorded for an earlier column gets no new entry
AppendedFirstColumnOnly(outlier_rows, col, values, st, flagged) ==
    [idx \in DOMAIN outlier_rows \cup {i - 1 : i \in flagged} |->
        IF idx \in DOMAIN outlier_rows THEN outlier_rows[idx]
        ELSE <<OutlierEntry(col, values, idx + 1, st[1], st[2])>>]

\* outlier_rows after the flagged rows of column col got their entries:
\* "if idx not in outlier_rows: outlier_rows[idx] = []" and
\* "outlier_rows[idx].append({...})"
Appended(outlier_rows, col, values, st, flagged) ==
    [idx \in DOMAIN outlier_rows \cup {i - 1 : i \in flagged} |->
        (IF idx \in DOMAIN outlier_rows THEN outlier_rows[idx] ELSE <<>>)
        \o (IF idx + 1 \in flagged
            THEN <<OutlierEntry(col, values, idx + 1, st[1], st[2])>>
            ELSE <<>>)]

\* the body of "for col in columns" for a column of data_dict, on
\* state = <<outlier_rows, self.stats>>, with st = <<mean, std_dev>>
CheckValues(state, col, values, st, threshold) ==
    <<Appended(state[1], col, values, st, Flagged(values, st, threshold)),
      Stored(state[2], col, st, threshold)>>

CheckColumn(state, col, values, threshold) ==
    CheckValues(state, col, values, ColumnStatistics(values), threshold)

\* "for col in columns" of detect_outliers from the k-th column on, on
\* state = <<outlier_rows, self.stats>>.  outlier_rows maps the 0-based row
\* index to the list of its entries; "self.stats[col] = {...}" is set for
\* every column that is looked at, the other keys of self.stats stay.
RECURSIVE DetectLoop(_, _, _, _, _)
DetectLoop(data_dict, columns, threshold, k, state) ==
    IF k > Len(columns) THEN state
    ELSE IF columns[k] \notin DOMAIN data_dict
    THEN DetectLoop(data_dict, columns, threshold, k + 1, state)
    ELSE DetectLoop(data_dict, columns, threshold, k + 1,
                    CheckColumn(state, columns[k], data_dict[columns[k]],
                                threshold))

\* the result of detect_outliers for done = <<outlier_rows, self.stats>>
DetectResult(done) == <<Value(done[1]), done[2]>>

\* detect_outliers of a detector whose self.threshold is threshold and whose
\* self.stats is self_stats: <<the result of the call, self.stats after
\* it>>.  On an empty data_dict
\* "n_rows = len(next(iter(data_dict.values())))" raises StopIteration
\* before a column is looked at; else the call returns outlier_rows.
detect_outliers(self_stats, data_dict, columns, threshold) ==
    IF DOMAIN data_dict = {} THEN <<Raised("StopIteration"), self_stats>>
    ELSE DetectResult(DetectLoop(data_dict, columns, threshold, 1,
                                 <<<<>>, self_stats>>))

\* ManualOutlierDetector(threshold=3.0), in tenths
DefaultThreshold == 30

\* the monitored columns of a frame as the lists detect_outliers takes:
\* cents and hundredths of a mile are hundredths
DataDict(rows) ==
    [fare_amount |-> [i \in 1..Len(rows) |-> rows[i].fare_amount],
     trip_distance |-> [i \in 1..Len(rows) |-> rows[i].trip_distance],
     tip_amount |-> [i \in 1..Len(rows) |-> rows[i].tip_amount]]

(* The stages of run_pipeline *)

\* (mutant) duplicates are removed before the obvious errors
RunPipelineCallsDedupFirst ==
    <<"load_data", "remove_null_required_fields", "fill_optional_nulls",
      "validate_business_rules", "remove_duplicates", "remove_obvious_errors",
      "engineer_features", "export_cleaned_data", "generate_cleaning_report">>

\* the calls of run_pipeline, in the order it makes them
RunPipelineCalls ==
    <<"load_data", "remove_null_required_fields", "fill_optional_nulls",
      "validate_business_rules", "remove_obvious_errors", "remove_duplicates",
      "engineer_features", "export_cleaned_data", "generate_cleaning_report">>

\* what run_pipeline does after the call of stage has returned
After(stage) ==
    LET k == CHOOSE i \in 1..Len(RunPipelineCalls) : RunPipelineCalls[i] = stage
    IN  IF k < Len(RunPipelineCalls) THEN RunPipelineCalls[k + 1] ELSE "returned"

\* run_pipeline's "except Exception": log and return (False, None, None)
PipelineFails ==
    /\ ppc' = "returned"
    /\ result' = "failed"

\* an exception inside a stage: self.df stays what the stage had made of it
StageRaises(stage, frame) ==
    /\ ppc = stage
    /\ calls' = Append(calls, stage)
    /\ df' = frame
    /\ PipelineFails

LoadData ==
    /\ ppc = "load_data"
    /\ ppc' = After("load_data")
    /\ calls' = Append(calls, "load_data")
    /\ df' = raw
    /\ cstats' = [cstats EXCEPT !.initial_rows = Len(raw)]
    /\ UNCHANGED <<raw, output, result>>
    /\ UNCHANGED <<loader_vars, call_vars>>

\* pd.read_parquet raises: load_data returns False, run_pipeline returns
LoadDataFails ==
    /\ ppc = "load_data"
    /\ calls' = Append(calls, "load_data")
    /\ PipelineFails
    /\ UNCHANGED <<raw, df, cstats, output>>
    /\ UNCHANGED <<loader_vars, call_vars>>

HasRequiredFields(r) ==
    /\ r.tpep_pickup_datetime # NULL
    /\ r.tpep_dropoff_datetime # NULL
    /\ r.trip_distance # NULL
    /\ r.fare_amount # NULL
    /\ r.PULocationID # NULL
    /\ r.DOLocationID # NULL

RemoveNullRequiredFields ==
    /\ ppc = "remove_null_required_fields"
    /\ ppc' = After("remove_null_required_fields")
    /\ calls' = Append(calls, "remove_null_required_fields")
    /\ LET kept == SelectSeq(df, HasRequiredFields)
       IN  /\ df' = kept
           /\ cstats' = [cstats EXCEPT
                            !.removed_null_required = Len(df) - Len(kept)]
    /\ UNCHANGED <<raw, output, result>>
    /\ UNCHANGED <<loader_vars, call_vars>>

FillNa(v, default) == IF v = NULL THEN default ELSE v

FillOptional(r) ==
    [r EXCEPT !.tip_amount = FillNa(@, 0),
              !.extra = FillNa(@, 0),
              !.passenger_count = FillNa(@, 10)]

FillOptionalNulls ==
    /\ ppc = "fill_optional_nulls"
    /\ ppc' = After("fill_optional_nulls")
    /\ calls' = Append(calls, "fill_optional_nulls")
    /\ df' = [i \in 1..Len(df) |-> FillOptional(df[i])]
    /\ UNCHANGED <<raw, cstats, output, result>>
    /\ UNCHANGED <<loader_vars, call_vars>>

\* the frame after each of the five rules of validate_business_rules
AfterFareRule(rows) == SelectSeq(rows, LAMBDA r : is_valid_fare(r.fare_amount))

AfterDistanceRule(rows) ==
    SelectSeq(AfterFareRule(rows), LAMBDA r : is_valid_distance(r.trip_distance))

AfterPassengerRule(rows) ==
    SelectSeq(AfterDistanceRule(rows),
           LAMBDA r : is_valid_passenger_count(r.passenger_count))

AfterDatetimeRule(rows) ==
    SelectSeq(AfterPassengerRule(rows),
           LAMBDA r : is_valid_datetime_range(r.tpep_pickup_datetime,
                                              r.tpep_dropoff_datetime))

AfterYearRule(rows) ==
    SelectSeq(AfterDatetimeRule(rows),
           LAMBDA r : /\ YearIs2019(r.tpep_pickup_datetime)
                      /\ YearIs2019(r.tpep_dropoff_datetime))

\* the counters validate_business_rules sets (the year rule sets none)
ValidationStats(st, rows) ==
    [st EXCEPT
       !.removed_invalid_fare = Len(rows) - Len(AfterFareRule(rows)),
       !.removed_invalid_distance =
            Len(AfterFareRule(rows)) - Len(AfterDistanceRule(rows)),
       !.removed_invalid_passenger =
            Len(AfterDistanceRule(rows)) - Len(AfterPassengerRule(rows)),
       !.removed_invalid_datetime =
            Len(AfterPassengerRule(rows)) - Len(AfterDatetimeRule(rows))]

ValidateBusinessRules ==
    /\ ppc = "validate_business_rules"
    /\ ppc' = After("validate_business_rules")
    /\ calls' = Append(calls, "validate_business_rules")
    /\ df' = AfterYearRule(df)
    /\ cstats' = ValidationStats(cstats, df)
    /\ UNCHANGED <<raw, output, result>>
    /\ UNCHANGED <<loader_vars, call_vars>>

\* DataFrame.apply(axis=1) over a frame without rows does not return a
\* boolean mask; the mask-indexing that follows may drop the columns, and
\* the year rule then raises KeyError.  Whether it does depends on the
\* pandas build, so both outcomes are kept.
ValidateBusinessRulesRaises ==
    /\ \/ df = <<>>
       \/ AfterFareRule(df) = <<>>
       \/ AfterDistanceRule(df) = <<>>
       \/ AfterPassengerRule(df) = <<>>
    /\ StageRaises("validate_business_rules", <<>>)
    /\ cstats' = ValidationStats(cstats, df)
    /\ UNCHANGED <<raw, output>>
    /\ UNCHANGED <<loader_vars, call_vars>>

Duration(r) == r.tpep_dropoff_datetime - r.tpep_pickup_datetime

\* temp_speed > 200, temp_speed being 0.0 unless the duration is positive
\* and else the double trip_distance / (duration_seconds / 3600).  The
\* double is within 2^-50 of the exact speed, which is not that close to 200
\* unless it is 200; the double of an exact 200 is 200 or the double next
\* to it.
SpeedOver200(r) ==
    IF Duration(r) > 0
    THEN IF 36 * r.trip_distance # 200 * Duration(r)
         THEN 36 * r.trip_distance > 200 * Duration(r)
         ELSE DblCmp(DblDiv(Dbl(r.trip_distance, 100),
                            DblDiv(Dbl(Duration(r), 1), Dbl(3600, 1))),
                     Dbl(200, 1)) > 0
    ELSE FALSE

ObviousError(r) ==
    \/ SpeedOver200(r)
    \/ r.trip_distance = 0 /\ Duration(r) = 0
    \/ Duration(r) > 86400
    \/ r.fare_amount > 100000
    \/ r.extra < 0

\* the five filters, then removed_outliers; the closing log line divides by
\* the number of rows the stage started with
RemoveObviousErrors ==
    /\ ppc = "remove_obvious_errors"
    /\ Len(df) # 0
    /\ ppc' = After("remove_obvious_errors")
    /\ calls' = Append(calls, "remove_obvious_errors")
    /\ LET kept == SelectSeq(df, LAMBDA r : ~ObviousError(r))
       IN  /\ df' = kept
           /\ cstats' = [cstats EXCEPT !.removed_outliers = Len(df) - Len(kept)]
    /\ UNCHANGED <<raw, output, result>>
    /\ UNCHANGED <<loader_vars, call_vars>>

\* ZeroDivisionError in the closing log line of a stage that started empty
RemoveObviousErrorsRaises ==
    /\ Len(df) = 0
    /\ StageRaises("remove_obvious_errors", <<>>)
    /\ cstats' = [cstats EXCEPT !.removed_outliers = 0]
    /\ UNCHANGED <<raw, output>>
    /\ UNCHANGED <<loader_vars, call_vars>>

DuplicateKey(r) ==
    <<r.tpep_pickup_datetime, r.tpep_dropoff_datetime, r.PULocationID,
      r.DOLocationID, r.fare_amount>>

\* drop_duplicates(subset=duplicate_columns, keep='first')
DropDuplicates(rows) ==
    LET first == SelectSeq([i \in 1..Len(rows) |-> i],
                           LAMBDA i : \A j \in 1..(i - 1) :
                               DuplicateKey(rows[j]) # DuplicateKey(rows[i]))
    IN  [k \in 1..Len(first) |-> rows[first[k]]]

RemoveDuplicates ==
    /\ ppc = "remove_duplicates"
    /\ ppc' = After("remove_duplicates")
    /\ calls' = Append(calls, "remove_duplicates")
    /\ df' = DropDuplicates(df)
    /\ cstats' = [cstats EXCEPT
                     !.removed_duplicates = Len(df) - Len(DropDuplicates(df))]
    /\ UNCHANGED <<raw, output, result>>
    /\ UNCHANGED <<loader_vars, call_vars>>

\* np.select over hour.between(6, 11), (12, 16), (17, 20), default 'Night'
PipelineTimeOfDay(hour) ==
    IF hour >= 6 /\ hour <= 11 THEN "Morning"
    ELSE IF hour >= 12 /\ hour <= 16 THEN "Afternoon"
    ELSE IF hour >= 17 /\ hour <= 20 THEN "Evening"
    ELSE "Night"

\* the five columns engineer_features adds to a row
PipelineFeatures(r) ==
    [tip_percentage |->
        IF r.fare_amount = 0 \/ r.tip_amount = NULL
        THEN <<0, 1>> ELSE <<r.tip_amount * 100, r.fare_amount>>,
     trip_duration_minutes |-> <<Duration(r), 60>>,
     time_of_day |-> PipelineTimeOfDay(Hour(r.tpep_pickup_datetime)),
     trip_speed_mph |->
        IF Duration(r) = 0
        THEN <<0, 1>> ELSE <<r.trip_distance * 3600, Duration(r) * 100>>,
     day_type |->
        IF DayOfWeek(r.tpep_pickup_datetime) >= 5 THEN "Weekend" ELSE "Weekday"]

EngineerFeatures ==
    /\ ppc = "engineer_features"
    /\ ppc' = After("engineer_features")
    /\ calls' = Append(calls, "engineer_features")
    /\ df' = [i \in 1..Len(df) |->
                [df[i] EXCEPT !.features = <<PipelineFeatures(df[i])>>]]
    /\ UNCHANGED <<raw, cstats, output, result>>
    /\ UNCHANGED <<loader_vars, call_vars>>

ExportCleanedData ==
    /\ ppc = "export_cleaned_data"
    /\ ppc' = After("export_cleaned_data")
    /\ calls' = Append(calls, "export_cleaned_data")
    /\ output' = df
    /\ UNCHANGED <<raw, df, cstats, result>>
    /\ UNCHANGED <<loader_vars, call_vars>>

\* to_csv raises: export_cleaned_data logs it and returns None
ExportCleanedDataFails ==
    /\ ppc = "export_cleaned_data"
    /\ ppc' = After("export_cleaned_data")
    /\ calls' = Append(calls, "export_cleaned_data")
    /\ UNCHANGED <<raw, df, cstats, output, result>>
    /\ UNCHANGED <<loader_vars, call_vars>>

\* final_rows, total_removed and the retention rate, which divides by
\* initial_rows (ZeroDivisionError for a run that loaded no rows); then the
\* report, and run_pipeline returns (True, output_file, report_file)
GenerateCleaningReport ==
    /\ ppc = "generate_cleaning_report"
    /\ ppc' = After("generate_cleaning_report")
    /\ calls' = Append(calls, "generate_cleaning_report")
    /\ cstats' = [cstats EXCEPT
                     !.final_rows = Len(df),
                     !.total_removed = cstats.initial_rows - Len(df)]
    /\ result' = IF cstats.initial_rows = 0 THEN "failed" ELSE "success"
    /\ UNCHANGED <<raw, df, output>>
    /\ UNCHANGED <<loader_vars, call_vars>>

NextPipeline ==
    \/ LoadData \/ LoadDataFails
    \/ RemoveNullRequiredFields
    \/ FillOptionalNulls
    \/ ValidateBusinessRules \/ ValidateBusinessRulesRaises
    \/ RemoveObviousErrors \/ RemoveObviousErrorsRaises
    \/ RemoveDuplicates
    \/ EngineerFeatures
    \/ ExportCleanedData \/ ExportCleanedDataFails
    \/ GenerateCleaningReport

InitPipeline == PipelineInit /\ LoaderIdle /\ NoCall

SpecPipeline == InitPipeline /\ [][NextPipeline]_vars

----------------------------------------------------------------------------
(***************************************************************************)
(* The feature functions of FeatureEngineer (src/feature_engineering.py),   *)
(* in the units and with the result records of the loader's functions.     *)
(***************************************************************************)

FeatureEngineer_calculate_tip_percentage(tip_amount, fare_amount) ==
    IF fare_amount = NULL \/ fare_amount <= 0 THEN Value(0)
    ELSE IF tip_amount = NULL \/ tip_amount < 0 THEN Value(0)
    ELSE Value(RoundQuotient(tip_amount * 100, fare_amount,
                             DblMul(DblDiv(Dbl(tip_amount, 100),
                                           Dbl(fare_amount, 100)),
                                    Dbl(100, 1))))

calculate_trip_duration_minutes(pickup_datetime, dropoff_datetime) ==
    IF pickup_datetime = NULL \/ dropoff_datetime = NULL THEN Value(NULL)
    ELSE LET duration_seconds == dropoff_datetime - pickup_datetime
         IN  IF duration_seconds <= 0 THEN Value(NULL)
             ELSE Value(RoundQuotient(duration_seconds, 60,
                                      DblDiv(Dbl(duration_seconds, 1),
                                             Dbl(60, 1))))

categorize_time_of_day(pickup_datetime) ==
    IF pickup_datetime = NULL THEN Value("Unknown")
    ELSE LET hour == Hour(pickup_datetime)
         IN  Value(IF 0 <= hour /\ hour < 5 THEN "Early Morning"
                   ELSE IF 5 <= hour /\ hour < 10 THEN "Morning Rush"
                   ELSE IF 10 <= hour /\ hour < 16 THEN "Midday"
                   ELSE IF 16 <= hour /\ hour < 20 THEN "Evening Rush"
                   ELSE IF 20 <= hour /\ hour < 24 THEN "Night"
                   ELSE "Unknown")

\* speed = (trip_distance / trip_duration_minutes) * 60
calculate_trip_speed_mph(trip_distance, trip_duration_minutes) ==
    IF trip_distance = NULL \/ trip_distance <= 0 THEN Value(NULL)
    ELSE IF trip_duration_minutes = NULL \/ trip_duration_minutes <= 0
    THEN Value(NULL)
    ELSE LET speed == DblMul(DblDiv(Dbl(trip_distance, 100),
                                   Dbl(trip_duration_minutes, 100)),
                            Dbl(60, 1))
         IN  Value(RoundQuotient(60 * trip_distance, trip_duration_minutes,
                                 speed))

categorize_day_type(pickup_datetime) ==
    IF pickup_datetime = NULL THEN Value("Unknown")
    ELSE Value(IF DayOfWeek(pickup_datetime) \in {5, 6}
               THEN "Weekend" ELSE "Weekday")

engineer_all_features(row) ==
    LET duration == calculate_trip_duration_minutes(row.pickup, row.dropoff)
    IN  Value([tip_percentage |->
                   FeatureEngineer_calculate_tip_percentage(row.tip,
                                                            row.fare).value,
               trip_duration_minutes |-> duration.value,
               time_of_day |-> categorize_time_of_day(row.pickup).value,
               trip_speed_mph |->
                   calculate_trip_speed_mph(row.distance, duration.value).value,
               day_type |-> categorize_day_type(row.pickup).value])

----------------------------------------------------------------------------
(***************************************************************************)
(* The library functions, each called on its own                           *)
(*                                                                         *)
(* args is the argument record of one call, fn the function that was       *)
(* called with it and ret its result.                                      *)
(***************************************************************************)

MaxPassengerTenths == 75

\* passenger counts, in tenths: null, negative, fractional and whole values
PassengerInputs ==
    {[kind |-> "passenger_count", v |-> x] :
        x \in {NULL} \cup (-15..MaxPassengerTenths)}

MaxColumnLen == 3

\* the values of a column, in hundredths: null / NaN, 0.0, 0.1 and 2.0
ColumnValues == {NULL, 0, 10, 200}

\* a column, and the mean handed to calculate_std_dev: 0.0, 0.5 or the
\* column's own mean
ColumnInputs ==
    UNION {{[kind |-> "column", values |-> vs, mean |-> m] :
               m \in {DblZero, Dbl(1, 2), calculate_mean(vs)}} :
           vs \in SeqsUpTo(ColumnValues, MaxColumnLen)}

\* the thresholds a detector is constructed with, in tenths
Thresholds == {7, 10}

MonitoredColumns == <<"fare_amount", "trip_distance", "tip_amount">>

MaxFrameRows == 2

Frame(fares, distances, threshold) ==
    [kind |-> "frame",
     data_dict |-> [fare_amount |-> fares, trip_distance |-> distances],
     columns |-> MonitoredColumns, threshold |-> threshold]

\* ten fares of 1.00 and one of 1.05
ElevenFares == [i \in 1..11 |-> IF i = 11 THEN 105 ELSE 100]

\* a detector and the argument of detect_outliers: two columns of one
\* length; the third monitored column is not in data_dict.  Then frames of
\* more rows: a row flagged in both columns before a row with a null fare
\* that is flagged for its distance; the fares 0.0, 0.1 and 0.7, of which
\* 0.0 scores -0.7044; columns of equal fares, whose sum is not a multiple
\* of the fare in double arithmetic; fares whose mean is 0.025 and 0.075;
\* eleven fares of which the last is 3.02 deviations above the mean; and a
\* data_dict without columns.
FrameInputs ==
    {f \in {Frame(c1, c2, t) :
                c1 \in SeqsUpTo(ColumnValues, MaxFrameRows),
                c2 \in SeqsUpTo({NULL, 0, 200}, MaxFrameRows),
                t \in Thresholds} :
        Len(f.data_dict.fare_amount) = Len(f.data_dict.trip_distance)}
    \cup
    {Frame(<<0, NULL, 200>>, <<0, 200, NULL>>, 7),
     Frame(<<0, 10, 70>>, <<0, 0, 0>>, 7),
     Frame(<<10, 10, 10>>, <<0, 0, 200>>, 7),
     Frame(<<20, 20, 20>>, <<0, 0, 0>>, 7),
     Frame(<<70, 70, 70>>, <<0, 0, 0>>, 7),
     Frame([i \in 1..9 |-> 10], [i \in 1..9 |-> 0], 7),
     Frame(<<10, 0, 0, 0>>, <<0, 0, 0, 200>>, 10),
     Frame(<<30, 0, 0, 0>>, <<0, 0, 0, 200>>, 10),
     Frame(ElevenFares, [i \in 1..11 |-> 300], DefaultThreshold),
     [kind |-> "frame", data_dict |-> <<>>, columns |-> MonitoredColumns,
      threshold |-> 7]}

\* trips as Phase B reads them and as rows handed to FeatureEngineer: a
\* Tuesday 08:00 and a Saturday 20:30 pickup, dropoffs before, at and after
\* them, and null, zero, negative and plain amounts; and 15-minute trips
\* picked up in the first and in the last second of every hour of a
\* Tuesday; and two trips whose tip percentage (146.875, 184.375) and speed
\* (61.875) lie halfway between two hundredths
TripInputs ==
    {[kind |-> "trip", pickup |-> p, dropoff |-> d, distance |-> x,
      fare |-> f, tip |-> t] :
        p \in {NULL, 28800, 419400},
        d \in {NULL, 28740, 28800, 28801, 29700, 420300},
        x \in {NULL, 0, 300, 9000},
        f \in {NULL, -500, 0, 1000},
        t \in {NULL, -100, 0, 200}}
    \cup
    {[kind |-> "trip", pickup |-> 3600 * h + s, dropoff |-> 3600 * h + s + 900,
      distance |-> 300, fare |-> 1000, tip |-> 200] :
        h \in 0..23, s \in {0, 3599}}
    \cup
    {[kind |-> "trip", pickup |-> 28800, dropoff |-> 28800 + 192,
      distance |-> 330, fare |-> 32, tip |-> t] : t \in {47, 59}}

LibraryInputs == PassengerInputs \cup TripInputs

LibraryInit ==
    /\ LoaderIdle
    /\ PipelineIdle
    /\ fn = "none"
    /\ args \in LibraryInputs
    /\ ret = <<>>
    /\ stats = <<>>
    /\ invocations = 0

\* the call fn(args) returns value
Returns(name, value) ==
    /\ fn = "none"
    /\ fn' = name
    /\ ret' = value
    /\ UNCHANGED <<args, stats, invocations, loader_vars, pipeline_vars>>

CallIsValidPassengerCount ==
    /\ args.kind = "passenger_count"
    /\ Returns("is_valid_passenger_count", is_valid_passenger_count(args.v))

(* populate-db.py *)

CallCalculateTipPercentage ==
    /\ args.kind = "trip"
    /\ Returns("calculate_tip_percentage",
               calculate_tip_percentage(args.tip, args.fare))

CallCalculateTripDuration ==
    /\ args.kind = "trip"
    /\ Returns("calculate_trip_duration",
               calculate_trip_duration(args.pickup, args.dropoff))

CallGetTimeOfDay ==
    /\ args.kind = "trip"
    /\ Returns("get_time_of_day", get_time_of_day(args.pickup))

\* with the duration of the trip, None when there is none
CallCalculateSpeed ==
    /\ args.kind = "trip"
    /\ Returns("calculate_speed",
               calculate_speed(args.distance,
                   calculate_trip_duration(args.pickup, args.dropoff).value))

CallGetDayType ==
    /\ args.kind = "trip"
    /\ Returns("get_day_type", get_day_type(args.pickup))

CallCalculateFeatures ==
    /\ args.kind = "trip"
    /\ Returns("calculate_features", CalculateFeatures(args))

(* FeatureEngineer *)

CallFeatureEngineerTipPercentage ==
    /\ args.kind = "trip"
    /\ Returns("FeatureEngineer.calculate_tip_percentage",
               FeatureEngineer_calculate_tip_percentage(args.tip, args.fare))

CallCalculateTripDurationMinutes ==
    /\ args.kind = "trip"
    /\ Returns("calculate_trip_duration_minutes",
               calculate_trip_duration_minutes(args.pickup, args.dropoff))

CallCategorizeTimeOfDay ==
    /\ args.kind = "trip"
    /\ Returns("categorize_time_of_day", categorize_time_of_day(args.pickup))

CallCalculateTripSpeedMph ==
    /\ args.kind = "trip"
    /\ Returns("calculate_trip_speed_mph",
               calculate_trip_speed_mph(args.distance,
                   calculate_trip_duration_minutes(args.pickup,
                                                   args.dropoff).value))

CallCategorizeDayType ==
    /\ args.kind = "trip"
    /\ Returns("categorize_day_type", categorize_day_type(args.pickup))

CallEngineerAllFeatures ==
    /\ args.kind = "trip"
    /\ Returns("engineer_all_features", engineer_all_features(args))

NextLibrary ==
    \/ CallIsValidPassengerCount
    \/ CallCalculateTipPercentage
    \/ CallCalculateTripDuration
    \/ CallGetTimeOfDay
    \/ CallCalculateSpeed
    \/ CallGetDayType
    \/ CallCalculateFeatures
    \/ CallFeatureEngineerTipPercentage
    \/ CallCalculateTripDurationMinutes
    \/ CallCategorizeTimeOfDay
    \/ CallCalculateTripSpeedMph
    \/ CallCategorizeDayType
    \/ CallEngineerAllFeatures

SpecLibrary == LibraryInit /\ [][NextLibrary]_vars

----------------------------------------------------------------------------
(***************************************************************************)
(* The functions of ManualOutlierDetector, each called on its own          *)
(***************************************************************************)

StatisticsInit ==
    /\ LoaderIdle
    /\ PipelineIdle
    /\ fn = "none"
    /\ args \in ColumnInputs \cup FrameInputs
    /\ ret = <<>>
    /\ stats = <<>>
    /\ invocations = 0

CallCalculateMean ==
    /\ args.kind = "column"
    /\ Returns("calculate_mean", calculate_mean(args.values))

CallCalculateStdDev ==
    /\ args.kind = "column"
    /\ Returns("calculate_std_dev", calculate_std_dev(args.values, args.mean))

\* on a detector just constructed
CallDetectOutliers ==
    /\ args.kind = "frame"
    /\ fn = "none"
    /\ fn' = "detect_outliers"
    /\ LET call == detect_outliers(stats, args.data_dict, args.columns,
                                   args.threshold)
       IN  /\ ret' = call[1]
           /\ stats' = call[2]
    /\ invocations' = invocations + 1
    /\ UNCHANGED <<args, loader_vars, pipeline_vars>>

NextStatistics ==
    \/ CallDetectOutliers
    \/ CallCalculateMean
    \/ CallCalculateStdDev

SpecStatistics == StatisticsInit /\ [][NextStatistics]_vars

----------------------------------------------------------------------------
(***************************************************************************)
(* One ManualOutlierDetector, detect_outliers called on it again and again *)
(***************************************************************************)

MaxInvocations == 2

\* the data of an invocation: frames that have different monitored columns,
\* and a data_dict without columns
DetectorData ==
    {<<>>,
     [fare_amount |-> <<0, 100, 200>>, trip_distance |-> <<0, 0, 200>>],
     [fare_amount |-> <<100, 100, 200>>],
     [trip_distance |-> <<0, 200, 200>>],
     [fare_amount |-> <<NULL, 0, 200>>, tip_amount |-> <<0, 0, 100>>],
     [tip_amount |-> <<0, 100>>],
     [fare_amount |-> <<10, 10, 10>>, trip_distance |-> <<0, 100, NULL>>],
     [fare_amount |-> <<0, 10, 70>>, trip_distance |-> <<0, 0, 0>>,
      tip_amount |-> <<0, 0, 0>>]}

\* __init__: self.threshold = threshold, self.stats = {}
DetectorInit ==
    /\ LoaderIdle
    /\ PipelineIdle
    /\ fn = "none"
    /\ args \in {[kind |-> "detector", threshold |-> t] :
                    t \in Thresholds \cup {DefaultThreshold}}
    /\ ret = <<>>
    /\ stats = <<>>
    /\ invocations = 0

\* detector.detect_outliers(data_dict, columns)
InvokeDetectOutliers ==
    /\ invocations < MaxInvocations
    /\ \E data_dict \in DetectorData :
          /\ args' = [kind |-> "frame", data_dict |-> data_dict,
                      columns |-> MonitoredColumns,
                      threshold |-> args.threshold]
          /\ LET call == detect_outliers(stats, data_dict, MonitoredColumns,
                                         args.threshold)
             IN  /\ ret' = call[1]
                 /\ stats' = call[2]
    /\ fn' = "detect_outliers"
    /\ invocations' = invocations + 1
    /\ UNCHANGED <<loader_vars, pipeline_vars>>

NextDetector == InvokeDetectOutliers

SpecDetector == DetectorInit /\ [][NextDetector]_vars

----------------------------------------------------------------------------
(* Observations used by the properties of the loader *)

\* Sizes of the page reads Phase B has issued, in order.
PageReads ==
    LET reads == SelectSeq(stmts, LAMBDA st : st.op = "select_page" /\ st.ok)
    IN  [i \in 1..Len(reads) |-> reads[i].n]

\* The bulk inserts into trips that were sent, in order.
ChunkInserts == SelectSeq(stmts, LAMBDA st : st.op = "insert_trips")

\* Rows of TRIPS_FILE that parse, in input order.
ParsedRows == SelectSeq([i \in 1..Len(csv_rows) |-> i], LAMBDA i : csv_rows[i].parses)

\* Rows of TRIPS_FILE behind the committed trips of this run, in trip_id order.
LoadedSrc ==
    LET loaded == SelectSeq(trips, LAMBDA t : t.src # 0)
    IN  [i \in 1..Len(loaded) |-> loaded[i].src]

\* Trips that were persisted before this run started.
NumPre == Cardinality({i \in 1..Len(trips) : trips[i].src = 0})

InitiallyEmpty == NumPre = 0

\* The derived_features rows of the trips of earlier loads.
PreFeatures == DerivedData(SelectSeq(trips, LAMBDA t : t.src = 0))

FeatureRows(id) ==
    Cardinality({i \in 1..Len(derived_features) : derived_features[i].trip_id = id})

FailedStmt == \E i \in 1..Len(stmts) : ~stmts[i].ok

\* The rollback of the handler raised.
RollbackFailed == \E i \in 1..Len(stmts) : stmts[i] = Stmt("rollback", 0, FALSE)

\* The try block is over: the handler has run, or the block ended normally.
Aborted == pc \in {"finally", "exited"} /\ failed_at # "none"

\* Phase B ran to the end of its loop.
PhaseBCompleted ==
    \/ pc \in {"count_features", "indexes", "verify"}
    \/ /\ pc \in {"except", "finally", "exited"}
       /\ failed_at \in {"none", "count_features", "indexes", "verify"}

----------------------------------------------------------------------------
(* Properties of the loader *)

\* C1: Phase B over two full pages and a partial third page of persisted
\* trips (120,000 trips with page size 50,000) issues four page reads, the
\* three non-empty ones followed by an empty fourth read that stops the loop.
C1_StopsOnEmptyFourthPage ==
    (PhaseBCompleted /\ trip_count \div batch_size = 2
                     /\ trip_count % batch_size # 0)
        => PageReads = <<batch_size, batch_size, trip_count % batch_size, 0>>

\* C2: with trips removed by another session between page reads, every trip
\* this run loaded that is still persisted when Phase B has finished has
\* exactly one derived_features row.
C2_SurvivorsHaveOneFeatureRow ==
    PhaseBCompleted =>
        \A i \in 1..Len(trips) :
            trips[i].src # 0 => FeatureRows(trips[i].trip_id) = 1

\* C3: on an initially empty destination, once Phase B has completed,
\* derived_features holds exactly one row for every persisted trip and no
\* other row.
C3_OneFeatureRowPerTrip ==
    (PhaseBCompleted /\ InitiallyEmpty) =>
        /\ \A i \in 1..Len(trips) : FeatureRows(trips[i].trip_id) = 1
        /\ Len(derived_features) = Len(trips)

C3_Witness ==
    /\ pc = "exited" /\ failed_at = "none" /\ InitiallyEmpty
    /\ Len(trips) > 2 * batch_size
    /\ Len(derived_features) = Len(trips)

\* C4: in every state, also after a failure, every committed
\* derived_features row carries the trip_id of a committed trips row.
C4_FeatureRowsReferenceTrips ==
    \A i \in 1..Len(derived_features) :
        \E j \in 1..Len(trips) : trips[j].trip_id = derived_features[i].trip_id

C4_Witness ==
    /\ pc = "exited" /\ failed_at = "phaseB"
    /\ Len(derived_features) > NumPre
    /\ Len(derived_features) < Len(trips)

\* C5: after an abort caused by a failed bulk write, the committed rows are
\* exactly those of the chunks (pages) committed before the failure, each of
\* them whole, and no row of the failing chunk (page) is persisted; the
\* open transaction holds nothing once the rollback has returned or the
\* process has ended.
C5_RollbackKeepsCommittedChunks ==
    /\ (Aborted /\ failed_at = "phaseA") =>
          /\ (pc = "exited" \/ ~RollbackFailed) => txn = EmptyTxn
          /\ LoadedSrc = SubSeq(ParsedRows, 1, total_inserted)
          /\ total_inserted % batch_size = 0
          /\ \A i \in 1..Len(batch_data) :
                \A j \in 1..Len(LoadedSrc) : LoadedSrc[j] # batch_data[i]
          /\ derived_features = PreFeatures
    /\ (Aborted /\ failed_at = "phaseB") =>
          /\ (pc = "exited" \/ ~RollbackFailed) => txn = EmptyTxn
          /\ Len(trips) = trip_count
          /\ derived_features =
                PreFeatures \o DerivedData(SubSeq(trips, 1, processed))
          /\ processed = offset

C5_Witness ==
    /\ pc = "exited" /\ failed_at = "phaseA"
    /\ total_inserted >= batch_size
    /\ Len(batch_data) = batch_size
    /\ next_id > NumPre + total_inserted + 1

\* C6: once a statement has failed, the only statement that follows it is
\* the rollback of the handler (which may fail in its turn): no chunk is
\* retried or skipped over, and after a failure in Phase A no page read,
\* feature insert or index creation is ever sent.
C6_NothingSentAfterFailure ==
    /\ \A i \in 1..Len(stmts) : \A j \in (i + 1)..Len(stmts) :
          ~stmts[i].ok => stmts[j].op = "rollback"
    /\ Cardinality({i \in 1..Len(stmts) :
                        ~stmts[i].ok /\ stmts[i].op # "rollback"}) <= 1
    /\ failed_at = "phaseA" =>
          \A i \in 1..Len(stmts) :
              stmts[i].op \notin {"count_trips", "select_page",
                                  "insert_features", "create_index"}
    /\ failed_at \in {"phaseA", "phaseB"} =>
          pc \in {"except", "finally", "exited"}

C6_Witness ==
    /\ pc = "exited" /\ failed_at = "phaseA"
    /\ pos < Len(csv_rows)
    /\ Len(stmts) > 1
    /\ stmts[Len(stmts)].op = "rollback"
    /\ ~stmts[Len(stmts) - 1].ok

\* C7: a run that aborts on a persistence failure in Phase A or Phase B, or
\* on a missing schema, zones or trips file, ends with a non-zero exit status.
C7_FatalFailureExitsNonZero ==
    (/\ pc = "exited"
     /\ \/ failed_at \in {"phaseA", "phaseB"}
        \/ failed_at \in {"schema", "zones", "open_trips"} /\ ~FailedStmt)
        => exit_status # 0

\* C8: an iteration of Phase A whose row fails to parse leaves the batch as
\* it was, adds one to a counter of the script, and goes on with the loop:
\* nothing is sent to the database, nothing is rolled back, the run goes on.
ScriptCounters == <<total_inserted, trip_count, offset, processed, feature_count>>

C8_DroppedRowsAreCounted ==
    [][(pc = "phaseA" /\ pos' = pos + 1 /\ ~csv_rows[pos + 1].parses) =>
          /\ batch_data' = batch_data
          /\ pc' = "phaseA" /\ exc' = "none" /\ failed_at' = "none"
          /\ stmts' = stmts /\ txn' = txn /\ trips' = trips
          /\ \E c \in 1..Len(ScriptCounters) :
                ScriptCounters'[c] = ScriptCounters[c] + 1]_vars

\* C9: the chunks Phase A sends hold between 1 and batch_size rows, every
\* chunk that is followed by another one holds exactly batch_size rows, and
\* the committed rows are the parsed rows of the file in input order.
C9_FixedSizeChunksInOrder ==
    /\ \A i \in 1..Len(ChunkInserts) :
          /\ ChunkInserts[i].n >= 1
          /\ ChunkInserts[i].n <= batch_size
          /\ i < Len(ChunkInserts) => ChunkInserts[i].n = batch_size
    /\ LoadedSrc = SubSeq(ParsedRows, 1, Len(LoadedSrc))
    /\ \A i \in 1..Len(trips) : \A j \in 1..Len(trips) :
          i < j => trips[i].trip_id < trips[j].trip_id

C9_Witness ==
    /\ pc = "exited" /\ failed_at = "none"
    /\ Len(ChunkInserts) = 2
    /\ ChunkInserts[2].n < batch_size
    /\ Len(ParsedRows) < Len(csv_rows)
----------------------------------------------------------------------------
(* Properties of the cleaning pipeline *)

Called(stage) == \E i \in 1..Len(calls) : calls[i] = stage

\* the call of stage was made and did not end in an exception
Returned(stage) ==
    Called(stage) /\ ~(result = "failed" /\ calls[Len(calls)] = stage)

PassesValidation(r) ==
    /\ HasRequiredFields(r)
    /\ is_valid_fare(r.fare_amount)
    /\ is_valid_distance(r.trip_distance)
    /\ is_valid_passenger_count(r.passenger_count)
    /\ is_valid_datetime_range(r.tpep_pickup_datetime, r.tpep_dropoff_datetime)
    /\ YearIs2019(r.tpep_pickup_datetime) /\ YearIs2019(r.tpep_dropoff_datetime)

\* the order of the claim: the Validator (required fields, defaults, rules),
\* the outlier stage, deduplication, the Feature Deriver, the Loader (export)
C10_Order ==
    <<"load_data", "remove_null_required_fields", "fill_optional_nulls",
      "validate_business_rules", "remove_obvious_errors", "remove_duplicates",
      "engineer_features", "export_cleaned_data", "generate_cleaning_report">>

\* C10: run_pipeline calls its stages in the order validation, outlier
\* removal, deduplication, feature derivation, export, each once and none
\* skipped (the calls made so far are a prefix of that order, and a
\* successful run made them all); a stage that has started works on the
\* complete output of the stages before it, and on nothing of a later stage.
C10_StagesInOrder ==
    /\ calls = SubSeq(C10_Order, 1, Len(calls))
    /\ result = "success" => calls = C10_Order
    /\ Returned("validate_business_rules") =>
          \A i \in 1..Len(df) : PassesValidation(df[i])
    /\ Returned("remove_obvious_errors") =>
          \A i \in 1..Len(df) : ~ObviousError(df[i])
    /\ Returned("remove_duplicates") =>
          \A i \in 1..Len(df) : \A j \in 1..Len(df) :
              i # j => DuplicateKey(df[i]) # DuplicateKey(df[j])
    /\ \A i \in 1..Len(df) :
          (df[i].features # <<>>) <=> Returned("engineer_features")
    /\ ~Called("export_cleaned_data") => output = <<>>
    /\ output # <<>> => output = df

C10_Witness ==
    /\ result = "success"
    /\ calls = C10_Order
    /\ Len(raw) = 2 /\ Len(df) = 1
    /\ output = df

\* the rows of the input file that reach validate_business_rules
ValidationInput ==
    LET kept == SelectSeq(raw, HasRequiredFields)
    IN  [i \in 1..Len(kept) |-> FillOptional(kept[i])]

\* C11: a record with fare_amount = -5 that reaches the validation stage is
\* removed by it and counted under removed_invalid_fare; no such record is
\* in the frame the outlier, deduplication or feature stage starts with, nor
\* in the output.
C11_NegativeFareRejectedAtValidation ==
    /\ Called("validate_business_rules") =>
          /\ \A i \in 1..Len(df) : df[i].fare_amount # -500
          /\ cstats.removed_invalid_fare >=
                Cardinality({i \in 1..Len(ValidationInput) :
                                ValidationInput[i].fare_amount = -500})
    /\ ppc \in {"remove_obvious_errors", "remove_duplicates",
                "engineer_features"} =>
          \A i \in 1..Len(df) : df[i].fare_amount # -500
    /\ \A i \in 1..Len(output) : output[i].fare_amount # -500

C11_Witness ==
    /\ ppc = "engineer_features"
    /\ \E i \in 1..Len(ValidationInput) : ValidationInput[i].fare_amount = -500
    /\ cstats.removed_invalid_fare = 1
    /\ Len(df) = 1

\* the conjunction of the rules as the specification states them, over a
\* record with the defaults filled in
SatisfiesStatedRules(r) ==
    /\ HasRequiredFields(r)
    /\ r.fare_amount >= 1 /\ r.fare_amount <= 50000
    /\ r.trip_distance > 0 /\ r.trip_distance <= 10000
    /\ r.passenger_count >= 10 /\ r.passenger_count <= 60
    /\ r.tpep_dropoff_datetime > r.tpep_pickup_datetime
    /\ Duration(r) >= 10 /\ Duration(r) <= 86400
    /\ YearIs2019(r.tpep_pickup_datetime)
    /\ YearIs2019(r.tpep_dropoff_datetime)

\* C12: the records that survive validation are exactly the input records
\* that satisfy every stated rule (required fields, fare in [0.01, 500],
\* distance in (0, 100], passenger_count in [1, 6], dropoff after pickup
\* with a duration in [10 s, 86400 s], both years 2019), in input order.
C12_SurvivorsAreTheRecordsSatisfyingAllRules ==
    Returned("validate_business_rules") =>
        df = SelectSeq(ValidationInput, SatisfiesStatedRules)
----------------------------------------------------------------------------
(* Properties of the library functions *)

\* C13: is_valid_passenger_count accepts a value iff it is a whole number
\* in [1, 6]; fractional values, values below 1 and values above 6 are
\* rejected.
C13_AcceptsOnlyIntegersOneToSix ==
    fn = "is_valid_passenger_count" =>
        (ret <=> /\ args.v # NULL
                 /\ args.v % 10 = 0
                 /\ args.v >= 10 /\ args.v <= 60)

\* the valid (non-null, non-NaN) entries of a list
Valid(values) == SelectSeq(values, LAMBDA v : v # NULL)

RECURSIVE SumSeq(_)
SumSeq(q) == IF q = <<>> THEN 0 ELSE Head(q) + SumSeq(Tail(q))

\* the exact sum of the doubles of q, as sign * digits * 2^exponent
RECURSIVE ExactTotal(_)
ExactTotal(q) ==
    IF q = <<>> THEN DblZero ELSE ExactSum(Head(q), ExactTotal(Tail(q)))

\* the exact numbers x and y differ by at most 2^-40 of y
Near(x, y) ==
    LET d == ExactSum(x, DblNeg(y))
    IN  ExactSum(<<d[1] * d[1], d[2], d[3] + 40>>, DblNeg(DblAbs(y)))[1] <= 0

\* n as an exact number
Whole(n) == IF n = 0 THEN DblZero ELSE <<1, BigOf(n), 0>>

\* C15: calculate_mean returns 0 for a list without a valid value and else
\* the sum of the valid values over their number n; calculate_std_dev
\* returns 0 when fewer than two values are valid, and for n >= 2 the root
\* of the sum of the squared deviations of the valid values over n - 1.
\* (The values are the doubles float(value); the result of the double
\* arithmetic is within 2^-40 of the exact quotient and root.)
C15_MeanAndSampleVariance ==
    /\ fn = "calculate_mean" =>
          LET valid == Valid(args.values)
              floats == [i \in 1..Len(valid) |-> Float(valid[i])]
          IN  IF valid = <<>> THEN ret = DblZero
              ELSE Near(ExactProduct(ret, Whole(Len(valid))), ExactTotal(floats))
    /\ fn = "calculate_std_dev" =>
          LET valid == Valid(args.values)
              n == Len(valid)
              squares == [i \in 1..n |->
                             LET diff == ExactSum(Float(valid[i]),
                                                  DblNeg(args.mean))
                             IN  ExactProduct(diff, diff)]
          IN  IF n < 2 THEN ret = DblZero
              ELSE Near(ExactProduct(ExactProduct(ret, ret), Whole(n - 1)),
                        ExactTotal(squares))

C15_Witness ==
    /\ fn = "calculate_std_dev"
    /\ Len(args.values) = 3
    /\ Len(Valid(args.values)) = 2
    /\ args.mean = calculate_mean(args.values)
    /\ ret[1] > 0

\* |(values[i] - mean) / std| > threshold / 10 with the mean and the sample
\* standard deviation of the valid entries of values, written with
\* n = their number, s = their sum and ss = the sum of their squares:
\* std^2 = (n ss - s^2) / (n (n - 1)), and std > 0
ZScoreAbove(values, i, threshold) ==
    LET valid == Valid(values)
        n == Len(valid)
        s == SumSeq(valid)
        ss == SumSeq([j \in 1..n |-> valid[j] * valid[j]])
        d == n * ss - s * s
        dev == n * values[i] - s
    IN  /\ values[i] # NULL
        /\ n >= 2
        /\ d > 0
        /\ 100 * dev * dev * (n - 1) > threshold * threshold * n * d

\* the result of detect_outliers has an entry for row i (from 1) of col
HasEntry(col, i) ==
    /\ i - 1 \in DOMAIN ret.value
    /\ \E j \in 1..Len(ret.value[i - 1]) : ret.value[i - 1][j].column = col

\* the monitored columns the data of the call has
PresentColumns ==
    {args.columns[k] : k \in 1..Len(args.columns)} \cap DOMAIN args.data_dict

\* C14: for a threshold t > 0, detect_outliers flags a non-null value v of a
\* column iff |(v - mean) / std| > t, mean and std taken over all non-null
\* values of that column; no value of a column with std = 0 is flagged.
C14_FlaggedIffZScoreAboveThreshold ==
    fn = "detect_outliers" /\ ret.raised = "none" /\ args.threshold > 0 =>
        \A col \in PresentColumns :
            LET values == args.data_dict[col]
            IN  /\ \A i \in 1..Len(values) :
                      HasEntry(col, i) <=> ZScoreAbove(values, i, args.threshold)
                /\ (\A i, j \in 1..Len(Valid(values)) :
                        Valid(values)[i] = Valid(values)[j]) =>
                      \A i \in 1..Len(values) : ~HasEntry(col, i)

\* the rows (from 1) of a column that detect_outliers' check of a value
\* against the statistics of its column flags
FlaggedInColumn(values, threshold) ==
    LET mean == calculate_mean(values)
        std_dev == calculate_std_dev(values, mean)
    IN  {i \in 1..Len(values) :
            /\ values[i] # NULL
            /\ ExceedsThreshold(calculate_z_score(values[i], mean, std_dev),
                                threshold)}

\* C16: the result of detect_outliers has a key for a row iff the row is
\* flagged in at least one monitored column, and the list of a row holds
\* exactly one entry, carrying the row's value, for each monitored column
\* in which the row is flagged; a null in one column of a row does not keep
\* the row's values in the other columns from being checked.
C16_OneEntryPerFlaggedColumn ==
    fn = "detect_outliers" /\ ret.raised = "none" =>
        LET n_rows == Len(args.data_dict.fare_amount)
            flagged == [col \in PresentColumns |->
                           FlaggedInColumn(args.data_dict[col], args.threshold)]
        IN  /\ DOMAIN ret.value \subseteq 0..(n_rows - 1)
            /\ \A i \in 1..n_rows :
                  (i - 1 \in DOMAIN ret.value) <=>
                      \E col \in PresentColumns : i \in flagged[col]
            /\ \A idx \in DOMAIN ret.value :
                  /\ \A col \in PresentColumns :
                        Cardinality({j \in 1..Len(ret.value[idx]) :
                                        ret.value[idx][j].column = col}) =
                            IF idx + 1 \in flagged[col] THEN 1 ELSE 0
                  /\ \A j \in 1..Len(ret.value[idx]) :
                        /\ ret.value[idx][j].column \in PresentColumns
                        /\ ret.value[idx][j].value =
                              args.data_dict[ret.value[idx][j].column][idx + 1]
                        /\ DOMAIN ret.value[idx][j] =
                              {"column", "value", "z_score", "mean", "std_dev"}

C16_Witness ==
    /\ fn = "detect_outliers"
    /\ ret.raised = "none"
    /\ 0 \in DOMAIN ret.value /\ Len(ret.value[0]) = 2
    /\ 1 \in DOMAIN ret.value /\ Len(ret.value[1]) = 1
    /\ args.data_dict.fare_amount[2] = NULL
    /\ ret.value[1][1].column = "trip_distance"
----------------------------------------------------------------------------
(* The z-score detector and the pipeline *)

\* the dataset validation leaves, and the rows of it the detector flags in
\* the fare, distance or tip column at the default threshold
ValidatedData == AfterYearRule(ValidationInput)

StatisticallyFlagged ==
    {ValidatedData[idx + 1] :
        idx \in DOMAIN detect_outliers(<<>>, DataDict(ValidatedData),
                                       <<"fare_amount", "trip_distance",
                                         "tip_amount">>,
                                       DefaultThreshold)[1].value}

\* C17: no record of the validated data that the z-score detector flags in
\* a monitored column is in the cleaned output of the pipeline.
C17_NoStatisticalOutlierInOutput ==
    \A i \in 1..Len(output) :
        [output[i] EXCEPT !.features = <<>>] \notin StatisticallyFlagged
----------------------------------------------------------------------------
(* Properties of the feature functions *)

LoaderFeatureFunctions ==
    {"calculate_tip_percentage", "calculate_trip_duration", "get_time_of_day",
     "calculate_speed", "get_day_type"}

EngineerFeatureFunctions ==
    {"FeatureEngineer.calculate_tip_percentage",
     "calculate_trip_duration_minutes", "categorize_time_of_day",
     "calculate_trip_speed_mph", "categorize_day_type"}

\* C18: a call of a feature function never raises, whatever fields of the
\* trip are null, and so the feature calculation of Phase B for a trip
\* never raises either.
C18_FeatureFunctionsNeverRaise ==
    fn \in LoaderFeatureFunctions \cup EngineerFeatureFunctions
                \cup {"calculate_features", "engineer_all_features"} =>
        ret.raised = "none"

\* the seconds from the pickup to the dropoff of the trip of the call, NULL
\* when one of the two is missing
SecondsOfTrip ==
    IF args.pickup = NULL \/ args.dropoff = NULL THEN NULL
    ELSE args.dropoff - args.pickup

\* C19: the speed a speed function returns for a trip is never above the
\* cap of 200 mph, however short the positive duration, and it is 0 when
\* the dropoff is at or before the pickup.
C19_SpeedNeverExceedsCap ==
    fn \in {"calculate_speed", "calculate_trip_speed_mph"}
            /\ ret.raised = "none" =>
        /\ ret.value <= SpeedCap
        /\ SecondsOfTrip # NULL /\ SecondsOfTrip <= 0 => ret.value = 0

\* C20: the duration a duration function returns for a trip is the seconds
\* from pickup to dropoff over 60, rounded to 2 decimals, 0 when the dropoff
\* is at or before the pickup, and null exactly when the pickup or the
\* dropoff is missing.
C20_DurationRoundedFlooredNullIffMissing ==
    fn \in {"calculate_trip_duration", "calculate_trip_duration_minutes"} =>
        /\ ret.raised = "none"
        /\ ret.value = IF SecondsOfTrip = NULL THEN NULL
                       ELSE IF SecondsOfTrip <= 0 THEN 0
                       ELSE RoundQuotient(SecondsOfTrip, 60,
                                          DblDiv(Dbl(SecondsOfTrip, 1),
                                                 Dbl(60, 1)))

\* C21: for a pickup in any hour 0..23, get_time_of_day and
\* categorize_time_of_day each return one named bucket of their scheme, never
\* "Unknown", and get_time_of_day returns the bucket the np.select of
\* engineer_features gives that hour.
C21_TimeOfDayIsTotalAndPipelineAgrees ==
    fn \in {"get_time_of_day", "categorize_time_of_day"}
            /\ args.pickup # NULL =>
        /\ ret.raised = "none"
        /\ fn = "get_time_of_day" =>
              /\ ret.value \in {"Morning", "Afternoon", "Evening", "Night"}
              /\ ret.value = PipelineTimeOfDay(Hour(args.pickup))
        /\ fn = "categorize_time_of_day" =>
              ret.value \in {"Early Morning", "Morning Rush", "Midday",
                             "Evening Rush", "Night"}

\* a pickup at 21:59:59, past the end of the evening, is bucketed "Night"
C21_Witness ==
    /\ fn = "get_time_of_day"
    /\ args.pickup = 3600 * 21 + 3599
    /\ ret.raised = "none"
    /\ ret.value = "Night"

\* the record fare 10, tip 2, pickup 2019-01-01 08:00:00, dropoff 08:15:00,
\* distance 3
ExampleTrip ==
    [kind |-> "trip", pickup |-> 28800, dropoff |-> 29700, distance |-> 300,
     fare |-> 1000, tip |-> 200]

\* C22: for the example record the feature calculation of the loader and
\* engineer_all_features both return tip_percentage 20.0, duration 15.0
\* minutes, time_of_day "Morning", speed 12.0 mph and day_type "Weekday".
C22_ExampleRecordFeatures ==
    fn \in {"calculate_features", "engineer_all_features"}
            /\ args = ExampleTrip =>
        /\ ret.raised = "none"
        /\ ret.value = [tip_percentage |-> 2000,
                        trip_duration_minutes |-> 1500,
                        time_of_day |-> "Morning",
                        trip_speed_mph |-> 1200,
                        day_type |-> "Weekday"]
----------------------------------------------------------------------------
(* Properties of the cleaning report and of the running counters *)

\* C23: in the cleaning report the seven removal counts (null required
\* fields, invalid fares, distances, passengers and datetimes, outliers,
\* duplicates) add up to Total Removed = initial rows - final rows.
C23_RemovalCountsSumToTotalRemoved ==
    Called("generate_cleaning_report") =>
        /\ cstats.total_removed = cstats.initial_rows - cstats.final_rows
        /\ cstats.removed_null_required + cstats.removed_invalid_fare
              + cstats.removed_invalid_distance
              + cstats.removed_invalid_passenger
              + cstats.removed_invalid_datetime
              + cstats.removed_outliers + cstats.removed_duplicates
                = cstats.total_removed

\* the trips relation held no row when the script started
StartedEmpty == \A i \in 1..Len(trips) : trips[i].src # 0

\* the script is past Phase A and nothing failed up to the end of Phase A
PhaseAFinished ==
    LET upToPhaseA == {"connect", "schema", "zones", "open_trips", "phaseA"}
    IN  pc \notin upToPhaseA /\ failed_at \notin upToPhaseA

\* C24: on a trips relation that started empty, total_inserted is the number
\* of committed trip rows after every commit of Phase A, and once Phase A has
\* finished without a failure the committed trips are the rows that parsed,
\* each once, and total_inserted is their number.
C24_TotalInsertedCountsCommittedTrips ==
    StartedEmpty =>
        /\ total_inserted = Len(trips)
        /\ PhaseAFinished =>
              /\ total_inserted = Len(ParsedRows)
              /\ [i \in 1..Len(trips) |-> trips[i].src] = ParsedRows

\* Phase A has finished after a full chunk and a remainder, with a row of
\* the file skipped
C24_Witness ==
    /\ StartedEmpty
    /\ PhaseAFinished
    /\ total_inserted = batch_size + 1
    /\ Len(trips) = batch_size + 1
    /\ \E i \in 1..Len(csv_rows) : ~csv_rows[i].parses

\* C25: a run that loaded a non-empty input of which no record reaches the
\* outlier stage still makes every call of run_pipeline and returns
\* success, with an empty cleaned output.
C25_EmptySurvivingDatasetStillSucceeds ==
    /\ ppc = "returned"
    /\ Called("remove_null_required_fields")
    /\ raw # <<>>
    /\ ValidatedData = <<>>
    => /\ result = "success"
       /\ calls = RunPipelineCalls
       /\ output = <<>>
----------------------------------------------------------------------------
(* Properties of the audit entries and of the statistics of the detector *)

\* C26: the z_score stored in an entry of the result of detect_outliers,
\* which is rounded to 2 decimals, is above the threshold in absolute value.
C26_StoredZScoreExceedsThreshold ==
    fn = "detect_outliers" /\ ret.raised = "none" =>
        \A idx \in DOMAIN ret.value :
            \A j \in 1..Len(ret.value[idx]) :
                Sign(ret.value[idx][j].z_score) * ret.value[idx][j].z_score
                    > 10 * args.threshold

\* C27: after detect_outliers has been called on a detector any number of
\* times, self.stats has an entry for exactly the monitored columns the
\* data of the latest call has, each with the mean and the deviation of that
\* data, and no entry left from an earlier call.
C27_StatsDescribeLatestInvocation ==
    invocations >= 1 =>
        /\ DOMAIN stats = PresentColumns
        /\ \A col \in PresentColumns :
              LET mean == calculate_mean(args.data_dict[col])
              IN  stats[col] =
                      [mean |-> mean,
                       std_dev |-> calculate_std_dev(args.data_dict[col], mean),
                       threshold |-> args.threshold]
====
